---- MODULE Spec2Model ----
(***************************************************************************)
(* A model of the ENS dashboard (src/app.py, src/utils.py,                 *)
(* src/components.py): the loader, the instrument tagger, the aggregator,  *)
(* the classifiers, the priority scorer and the sidebar filter/sort, as    *)
(* one script that Streamlit runs from top to bottom on every interaction. *)
(***************************************************************************)
EXTENDS Integers, Sequences, FiniteSets, TLC

VARIABLES
    file,             \* the JSON input file: a sequence of raw records
    df,               \* the table load_data returns (<<>>: the empty DataFrame)
    pc,               \* "start" | "rendered" | "stopped"
    st_error,         \* the messages st.error has shown in the last run
    session_state,    \* the sidebar widgets' values, by widget key
    filtered_df,      \* main's filtered_df after filtering and sorting
    sections,         \* the sections the last run has written, in their order
    st_info,          \* the st.info and st.success texts of the last run's sections
    widgets,          \* the keys of the widgets the last run's sections have shown
    exception,        \* the exception that ended the last run, "" when none did
    panel,            \* the Faculty Contract Management panel of the last run
    modal,            \* the instrument modal of the last run
    theme_mode,       \* the module-level variable theme_mode of app.py
    session,          \* the browser session whose state the variables above hold
    background,       \* the state of the other browser session
    faculty_images,   \* the directory faculty_images: the content of each file path
    saved             \* the last call of save_faculty_image and what it has found

vars == <<file, df, pc, st_error, session_state, filtered_df, sections, st_info, widgets,
          exception, panel, modal, theme_mode, session, background, faculty_images, saved>>

(***************************************************************************)
(* Bounds of the model.                                                    *)
(***************************************************************************)
MaxRecords == 2
MaxPrefRecords == 3
MaxCount == 4
MaxCap == 4
MaxPrefCount == 2
MaxEnrolled == 1
MaxEnrolledLen == 5
MaxNeededLen == 2
MaxRateNum == 202
MaxActiveFilters == 2

(***************************************************************************)
(* float64 values as extended fractions n/d: d > 0 is a finite number,     *)
(* 1/0 and -1/0 are the infinities, 0/0 is NaN.                            *)
(***************************************************************************)
Flt(k) == [n |-> k, d |-> 1]
NaN == [n |-> 0, d |-> 0]
PosInf == [n |-> 1, d |-> 0]
NegInf == [n |-> -1, d |-> 0]
IsNaN(x) == x.d = 0 /\ x.n = 0
IsFinite(x) == x.d > 0
Sign(k) == IF k > 0 THEN 1 ELSE IF k < 0 THEN -1 ELSE 0
Abs(k) == IF k < 0 THEN -k ELSE k

\* x / y of two float64 values (numpy: a division by zero is inf or NaN, no error)
FDiv(x, y) ==
    IF IsNaN(x) \/ IsNaN(y) THEN NaN
    ELSE IF ~IsFinite(x) THEN
        (IF ~IsFinite(y) THEN NaN
         ELSE [n |-> x.n * (IF y.n < 0 THEN -1 ELSE 1), d |-> 0])
    ELSE IF ~IsFinite(y) THEN Flt(0)
    ELSE IF y.n = 0 THEN [n |-> Sign(x.n), d |-> 0]
    ELSE [n |-> x.n * y.d * Sign(y.n), d |-> x.d * Abs(y.n)]

\* x * y
FMul(x, y) ==
    IF IsNaN(x) \/ IsNaN(y) THEN NaN
    ELSE IF ~IsFinite(x) \/ ~IsFinite(y) THEN [n |-> Sign(x.n) * Sign(y.n), d |-> 0]
    ELSE [n |-> x.n * y.n, d |-> x.d * y.d]

\* x + y
FAdd(x, y) ==
    IF IsNaN(x) \/ IsNaN(y) THEN NaN
    ELSE IF ~IsFinite(x) THEN (IF ~IsFinite(y) /\ y.n # x.n THEN NaN ELSE x)
    ELSE IF ~IsFinite(y) THEN y
    ELSE [n |-> x.n * y.d + y.n * x.d, d |-> x.d * y.d]

\* x - y
FSub(x, y) == FAdd(x, [n |-> -y.n, d |-> y.d])

\* x < y, x <= y, x == y, x > y: every comparison with NaN is False
FLT(x, y) ==
    /\ ~IsNaN(x) /\ ~IsNaN(y)
    /\ IF ~IsFinite(x) /\ ~IsFinite(y) THEN x.n < y.n
       ELSE x.n * y.d < y.n * x.d
FEQ(x, y) ==
    /\ ~IsNaN(x) /\ ~IsNaN(y)
    /\ IF ~IsFinite(x) \/ ~IsFinite(y) THEN x = y
       ELSE x.n * y.d = y.n * x.d
FLE(x, y) == FLT(x, y) \/ FEQ(x, y)
FGT(x, y) == FLT(y, x)
FGE(x, y) == FLE(y, x)

(***************************************************************************)
(* JSON values of the input file.                                          *)
(***************************************************************************)
JNum(k) == [t |-> "num", v |-> k]          \* a number, or a string of digits
JText == [t |-> "text", v |-> 0]           \* a non-numeric string or null
JList(s) == [t |-> "list", v |-> s]        \* a JSON array
JNull == [t |-> "null", v |-> <<>>]        \* null or a scalar, where a list is expected
JMissing == [t |-> "missing", v |-> <<>>]  \* the record does not have the key

isinstance_list(x) == x.t = "list"

\* pd.to_numeric(column, errors='coerce'), per cell
to_numeric(x) == IF x.t = "num" THEN Flt(x.v) ELSE NaN

\* Series.fillna(0), per cell: NaN becomes 0, an infinity stays
fillna0(x) == IF IsNaN(x) THEN Flt(0) ELSE x

Instruments == <<"GUIT", "PNO", "BASS", "DRUMS", "VOICE">>
InstrumentSet == {Instruments[i] : i \in 1..Len(Instruments)}
PosOf(instrument) == CHOOSE i \in 1..Len(Instruments) : Instruments[i] = instrument

\* list.count(x)
Count(s, x) == Cardinality({k \in 1..Len(s) : s[k] = x})

\* [int(i) for i in x]: raises ValueError on an element that is not an integer
IntRaises(x) == \E k \in 1..Len(x) : x[k].t # "num"
IntList(x) == [k \in 1..Len(x) |-> x[k].v]

(***************************************************************************)
(* Python strings: the text of every string the model uses, as the         *)
(* sequence of its characters, and the str operations of the code on them. *)
(***************************************************************************)
Chars ==
    "" :> <<>> @@
    "ENMX-100-001" :> <<"E", "N", "M", "X", "-", "1", "0", "0", "-", "0", "0", "1">> @@
    "ENVC-330-003" :> <<"E", "N", "V", "C", "-", "3", "3", "0", "-", "0", "0", "3">> @@
    "ENGT-120-004" :> <<"E", "N", "G", "T", "-", "1", "2", "0", "-", "0", "0", "4">> @@
    "ENPN-210-002" :> <<"E", "N", "P", "N", "-", "2", "1", "0", "-", "0", "0", "2">> @@
    "enmx-100-005" :> <<"e", "n", "m", "x", "-", "1", "0", "0", "-", "0", "0", "5">> @@
    "Lello Molinari" :> <<"L", "e", "l", "l", "o", " ", "M", "o", "l", "i", "n", "a", "r", "i">> @@
    "Albino Mbie" :> <<"A", "l", "b", "i", "n", "o", " ", "M", "b", "i", "e">> @@
    "Ricardo Monzon" :> <<"R", "i", "c", "a", "r", "d", "o", " ", "M", "o", "n", "z", "o", "n">> @@
    "Tolieth Marks" :> <<"T", "o", "l", "i", "e", "t", "h", " ", "M", "a", "r", "k", "s">> @@
    "Jane Doe" :> <<"J", "a", "n", "e", " ", "D", "o", "e">> @@
    "PISJ Staff" :> <<"P", "I", "S", "J", " ", "S", "t", "a", "f", "f">> @@
    "Ends Well" :> <<"E", "n", "d", "s", " ", "W", "e", "l", "l">> @@
    "ENDS Faculty" :> <<"E", "N", "D", "S", " ", "F", "a", "c", "u", "l", "t", "y">> @@
    "Jazz Ensemble" :> <<"J", "a", "z", "z", " ", "E", "n", "s", "e", "m", "b", "l", "e">> @@
    "Senior Recital" :> <<"S", "e", "n", "i", "o", "r", " ", "R", "e", "c", "i", "t", "a", "l">> @@
    "Improv Lab" :> <<"I", "m", "p", "r", "o", "v", " ", "L", "a", "b">> @@
    "performance lab" :> <<"p", "e", "r", "f", "o", "r", "m", "a", "n", "c", "e", " ", "l", "a", "b">> @@
    "N/A" :> <<"N", "/", "A">> @@
    ", " :> <<",", " ">> @@
    "ENMX-100" :> <<"E", "N", "M", "X", "-", "1", "0", "0">> @@
    "PISJ" :> <<"P", "I", "S", "J">> @@
    "ENDS" :> <<"E", "N", "D", "S">> @@
    "PERFORMANCE" :> <<"P", "E", "R", "F", "O", "R", "M", "A", "N", "C", "E">> @@
    "ENSEMBLE" :> <<"E", "N", "S", "E", "M", "B", "L", "E">> @@
    "RECITAL" :> <<"R", "E", "C", "I", "T", "A", "L">> @@
    "molinari" :> <<"m", "o", "l", "i", "n", "a", "r", "i">> @@
    "JAZZ" :> <<"J", "A", "Z", "Z">> @@
    "enmx" :> <<"e", "n", "m", "x">> @@
    "." :> <<".">> @@
    "(" :> <<"(">> @@
    "zzz" :> <<"z", "z", "z">> @@
    "n/a" :> <<"n", "/", "a">> @@
    "001" :> <<"0", "0", "1">> @@
    "marks" :> <<"m", "a", "r", "k", "s">> @@
    "9:00 AM" :> <<"9", ":", "0", "0", " ", "A", "M">> @@
    "10:00 AM" :> <<"1", "0", ":", "0", "0", " ", "A", "M">> @@
    "12:00 AM" :> <<"1", "2", ":", "0", "0", " ", "A", "M">> @@
    "12:30 PM" :> <<"1", "2", ":", "3", "0", " ", "P", "M">> @@
    "1:00 PM" :> <<"1", ":", "0", "0", " ", "P", "M">> @@
    "2:15 PM" :> <<"2", ":", "1", "5", " ", "P", "M">> @@
    "3:45 PM" :> <<"3", ":", "4", "5", " ", "P", "M">> @@
    "4:00 PM" :> <<"4", ":", "0", "0", " ", "P", "M">> @@
    "6:30 PM" :> <<"6", ":", "3", "0", " ", "P", "M">> @@
    "10:30 PM" :> <<"1", "0", ":", "3", "0", " ", "P", "M">> @@
    "11:00 PM" :> <<"1", "1", ":", "0", "0", " ", "P", "M">> @@
    "7:01:00 PM" :> <<"7", ":", "0", "1", ":", "0", "0", " ", "P", "M">> @@
    "17:00" :> <<"1", "7", ":", "0", "0">> @@
    "AM" :> <<"A", "M">> @@
    "PM" :> <<"P", "M">> @@
    "12:" :> <<"1", "2", ":">> @@
    "1:" :> <<"1", ":">> @@
    "2:" :> <<"2", ":">> @@
    "3:" :> <<"3", ":">> @@
    "photo.jpg" :> <<"p", "h", "o", "t", "o", ".", "j", "p", "g">> @@
    "photo.PNG" :> <<"p", "h", "o", "t", "o", ".", "P", "N", "G">> @@
    "scan.pdf" :> <<"s", "c", "a", "n", ".", "p", "d", "f">> @@
    "jpg" :> <<"j", "p", "g">> @@
    "jpeg" :> <<"j", "p", "e", "g">> @@
    "png" :> <<"p", "n", "g">> @@
    "pdf" :> <<"p", "d", "f">> @@
    "EN,1" :> <<"E", "N", ",", "1">> @@
    "EN\"1" :> <<"E", "N", "\"", "1">> @@
    "EN\n1" :> <<"E", "N", "\n", "1">> @@
    "Section" :> <<"S", "e", "c", "t", "i", "o", "n">> @@
    "Course Title" :> <<"C", "o", "u", "r", "s", "e", " ", "T", "i", "t", "l", "e">> @@
    "Faculty" :> <<"F", "a", "c", "u", "l", "t", "y">> @@
    "Time" :> <<"T", "i", "m", "e">> @@
    " - " :> <<" ", "-", " ">> @@
    "11:50 AM" :> <<"1", "1", ":", "5", "0", " ", "A", "M">> @@
    "2:00 PM" :> <<"2", ":", "0", "0", " ", "P", "M">> @@
    "E.S" :> <<"E", ".", "S">>

ascii_lowercase == <<"a", "b", "c", "d", "e", "f", "g", "h", "i", "j", "k", "l", "m", "n", "o", "p", "q", "r", "s", "t", "u", "v", "w", "x", "y", "z">>
ascii_uppercase == <<"A", "B", "C", "D", "E", "F", "G", "H", "I", "J", "K", "L", "M", "N", "O", "P", "Q", "R", "S", "T", "U", "V", "W", "X", "Y", "Z">>

\* the position of a character in an alphabet, 0 when it is not in it
IndexIn(alphabet, c) ==
    IF \E k \in 1..Len(alphabet) : alphabet[k] = c
    THEN CHOOSE k \in 1..Len(alphabet) : alphabet[k] = c ELSE 0

\* the characters of the model's strings
CharSet ==
    UNION {{Chars[x][k] : k \in 1..Len(Chars[x])} : x \in DOMAIN Chars}
        \cup {ascii_lowercase[k] : k \in 1..26} \cup {ascii_uppercase[k] : k \in 1..26}

\* str.lower(), str.upper(), per character and of a string
lower_char ==
    [c \in CharSet |->
        IF IndexIn(ascii_uppercase, c) > 0 THEN ascii_lowercase[IndexIn(ascii_uppercase, c)]
        ELSE c]
upper_char ==
    [c \in CharSet |->
        IF IndexIn(ascii_lowercase, c) > 0 THEN ascii_uppercase[IndexIn(ascii_lowercase, c)]
        ELSE c]
lower(s) == [k \in 1..Len(s) |-> lower_char[s[k]]]
upper(s) == [k \in 1..Len(s) |-> upper_char[s[k]]]

\* sub in s
Contains(s, sub) ==
    \E o \in 0..(Len(s) - Len(sub)) : \A k \in 1..Len(sub) : s[o + k] = sub[k]

\* sep.join(list) of a list of strings
RECURSIVE join(_, _)
join(sep, list) ==
    IF Len(list) = 0 THEN <<>>
    ELSE IF Len(list) = 1 THEN Chars[list[1]]
    ELSE Chars[list[1]] \o sep \o join(sep, Tail(list))

\* re.compile(pat, re.IGNORECASE) on the patterns of the model: '.' stands for any
\* character, '(' without its ')' is an error, every other character is literal
re_error(pat) == \E k \in 1..Len(pat) : pat[k] = "("
re_search_ignorecase(pat, s) ==
    \E o \in 0..(Len(s) - Len(pat)) :
        \A k \in 1..Len(pat) : pat[k] = "." \/ lower_char[s[o + k]] = lower_char[pat[k]]

(***************************************************************************)
(* load_data: one row per record of the file.                              *)
(***************************************************************************)
\* InstrumentStatus with the first test written >= 0: C1 fails for it
InstrumentStatusFilledAtZero(enrolled, needed) ==
    IF enrolled >= 0 THEN "Filled"
    ELSE IF needed > 0 THEN "Needed" ELSE "Not Required"

\* 'Filled' if enrolled > 0 else ('Needed' if needed > 0 else 'Not Required')
InstrumentStatus(enrolled, needed) ==
    IF enrolled > 0 THEN "Filled"
    ELSE IF needed > 0 THEN "Needed" ELSE "Not Required"

\* EnrolledAt that takes the last element of the list for missing: C20 fails for it
EnrolledAt_short(x, instrument) ==
    IF PosOf(instrument) < Len(x) THEN x[PosOf(instrument)] ELSE 0

\* x[i] if i < len(x) else 0, for the instrument at (0-based) index i
EnrolledAt(x, instrument) ==
    IF PosOf(instrument) <= Len(x) THEN x[PosOf(instrument)] ELSE 0

\* activestucount / seatscap * 100, NaN filled with 0
EnrollmentRate(active, cap) == fillna0(FMul(FDiv(active, cap), Flt(100)))

LoadRow(r) ==
    LET active == to_numeric(r.activestucount)
        cap == to_numeric(r.seatscap)
        rhythm_enrolled ==
            IF isinstance_list(r.rhythmenrolled) THEN IntList(r.rhythmenrolled.v) ELSE <<>>
        rhythm_needed ==
            IF isinstance_list(r.rhythmneeded) THEN r.rhythmneeded.v ELSE <<>>
        enrolled == [i \in InstrumentSet |-> EnrolledAt(rhythm_enrolled, i)]
        needed == [i \in InstrumentSet |-> Count(rhythm_needed, i)]
    IN  [ bSecTerm |-> r.bSecTerm,
          sectionname |-> r.sectionname,
          titlelongcrs |-> r.titlelongcrs,
          facnamepreffml |-> r.facnamepreffml,
          style |-> r.style,
          rhythmneeded |-> r.rhythmneeded,
          bSinCsmDays |-> r.bSinCsmDays,
          bSinCsmStartTime |-> r.bSinCsmStartTime,
          bSinCsmEndTime |-> r.bSinCsmEndTime,
          seatsavail |-> to_numeric(r.seatsavail),
          activestucount |-> active,
          seatscap |-> cap,
          ratingOverall |-> to_numeric(r.ratingOverall),
          enrollment_rate |-> EnrollmentRate(active, cap),
          open_seats |-> FSub(cap, active),
          rhythm_instruments |->
              IF isinstance_list(r.rhythminstrument) THEN r.rhythminstrument.v ELSE <<>>,
          rhythm_enrolled |-> rhythm_enrolled,
          rhythm_needed |-> rhythm_needed,
          enrolled |-> enrolled,
          needed |-> needed,
          status |-> [i \in InstrumentSet |-> InstrumentStatus(enrolled[i], needed[i])] ]

\* pd.DataFrame(data) has a column for every key that some record has
HasColumn(f, column) == \E k \in 1..Len(f) : f[k][column].t # "missing"

\* the keys of a record whose values the model varies in kind
TaggedColumns ==
    { "titlelongcrs", "facnamepreffml", "seatsavail", "activestucount", "seatscap",
      "ratingOverall", "rhythminstrument", "rhythmenrolled", "rhythmneeded",
      "bSinCsmDays", "bSinCsmStartTime", "bSinCsmEndTime" }

\* pd.DataFrame(data): in a column that exists, the cell of a record without the
\* key is NaN, which is what null gives; a cell stays "missing" only when no
\* record has the key, and reading that column is a KeyError
DataFrame(f) ==
    [k \in 1..Len(f) |->
        [c \in DOMAIN f[k] |->
            IF c \in TaggedColumns /\ f[k][c].t = "missing" /\ HasColumn(f, c)
            THEN (IF c \in {"seatsavail", "activestucount", "seatscap", "ratingOverall"}
                  THEN JText ELSE JNull)
            ELSE f[k][c]]]

\* the columns load_data reads
LoadColumns ==
    { "seatsavail", "activestucount", "seatscap", "ratingOverall",
      "rhythminstrument", "rhythmenrolled", "rhythmneeded" }

\* A file is the array of objects it holds. A path that holds anything else is
\* a one-element sequence that says what is there; 'rows' are the records that
\* an object of equal-length column arrays tabulates.
OtherFile(content, rows) == << [content |-> content, rows |-> rows] >>
IsArrayOfObjects(f) == Len(f) = 0 \/ "content" \notin DOMAIN f[1]

\* what open(), json.load() and pd.DataFrame() raise, "" when nothing
ReadRaises(f) ==
    IF IsArrayOfObjects(f) THEN ""
    ELSE CASE f[1].content = "no file" -> "FileNotFoundError"
           [] f[1].content = "not JSON" -> "JSONDecodeError"
           [] f[1].content = "number" -> "ValueError"
           [] f[1].content = "string" -> "ValueError"
           [] OTHER -> ""

\* the rows pd.DataFrame(data) has: one per object of an array, one per position
\* of the column arrays of an object; none for null, {} and an array of numbers
Table(f) == IF IsArrayOfObjects(f) THEN f ELSE f[1].rows

\* What makes the body of load_data raise: the file cannot be read or tabulated,
\* a column it reads is not there (KeyError; an empty table has no column at
\* all), or int() cannot convert an element of a rhythmenrolled list (ValueError).
LoadRaises(f) ==
    \/ ReadRaises(f) # ""
    \/ Len(Table(f)) = 0
    \/ \E c \in LoadColumns : ~HasColumn(Table(f), c)
    \/ \E k \in 1..Len(Table(f)) :
          isinstance_list(Table(f)[k].rhythmenrolled) /\ IntRaises(Table(f)[k].rhythmenrolled.v)

\* load_data(): the table, or the empty DataFrame after st.error
load_data(f) ==
    IF LoadRaises(f) THEN <<>>
    ELSE [k \in 1..Len(Table(f)) |-> LoadRow(DataFrame(Table(f))[k])]

\* utils.process_instrument_data(df, instruments): the columns it writes, per row;
\* a code listed twice keeps the columns of its last index
process_instrument_data(d, instruments) ==
    [k \in 1..Len(d) |->
        LET codes == {instruments[i] : i \in 1..Len(instruments)}
            last(c) == CHOOSE i \in 1..Len(instruments) :
                           /\ instruments[i] = c
                           /\ \A j \in (i + 1)..Len(instruments) : instruments[j] # c
        IN  [ enrolled |-> [c \in codes |->
                              IF last(c) <= Len(d[k].rhythm_enrolled)
                              THEN d[k].rhythm_enrolled[last(c)] ELSE 0],
              needed |-> [c \in codes |-> Count(d[k].rhythm_needed, c)] ]]

\* utils.load_ensemble_data(): the same body, but the failure is raised
load_ensemble_data(f) ==
    IF LoadRaises(f) THEN [raises |-> "Exception: Error loading data", df |-> <<>>]
    ELSE [raises |-> "", df |-> load_data(f)]

(***************************************************************************)
(* main: the sidebar filters.                                              *)
(***************************************************************************)
MaxOf(S) == CHOOSE x \in S : \A y \in S : y <= x

\* terms = sorted(df['bSecTerm'].unique()); the selectbox starts at the last one
Terms(d) == {d[k].bSecTerm : k \in 1..Len(d)}
Styles(d) == {"All"} \cup {d[k].style : k \in 1..Len(d)}
InstrumentOptions == {"All"} \cup InstrumentSet
\* ratings = ['All'] + sorted(df['ratingOverall'].unique())
AllRatings == [all |-> TRUE, v |-> NaN]
Ratings(d) == {AllRatings} \cup {[all |-> FALSE, v |-> d[k].ratingOverall] : k \in 1..Len(d)}

DefaultWidgets(d) ==
    [ term_filter |-> MaxOf(Terms(d)),
      style_filter |-> "All",
      rating_filter |-> AllRatings,
      instrument_filter |-> "All",
      sort_filter |-> "Default (No Sorting)",
      bass_filter |-> FALSE,
      piano_filter |-> FALSE,
      drums_filter |-> FALSE,
      vocal_filter |-> FALSE,
      search_input |-> "",
      bass_search |-> "",
      piano_search |-> "",
      drums_search |-> "",
      low_enrollment_search |-> "",
      performance_search |-> "",
      registration_search |-> "",
      priority_filter |-> "All Priorities",
      registration_contract_filter |-> "All Contracts",
      clicked |-> "",
      clicked_key |-> <<>>,
      theme_selector |-> "Light",
      color_theme_selector |-> "Classic Blue",
      theme_colors |-> "",
      edit_faculty |-> {},
      show_faculty_management |-> FALSE,
      faculty_selector |-> "",
      contract_type_selector |-> "FT",
      show_modal |-> FALSE,
      selected_instrument |-> "Unknown",
      modal_data |-> <<>> ]

NoWidgets ==
    [ term_filter |-> 0,
      style_filter |-> "All",
      rating_filter |-> AllRatings,
      instrument_filter |-> "All",
      sort_filter |-> "Default (No Sorting)",
      bass_filter |-> FALSE,
      piano_filter |-> FALSE,
      drums_filter |-> FALSE,
      vocal_filter |-> FALSE,
      search_input |-> "",
      bass_search |-> "",
      piano_search |-> "",
      drums_search |-> "",
      low_enrollment_search |-> "",
      performance_search |-> "",
      registration_search |-> "",
      priority_filter |-> "All Priorities",
      registration_contract_filter |-> "All Contracts",
      clicked |-> "",
      clicked_key |-> <<>>,
      theme_selector |-> "Light",
      color_theme_selector |-> "Classic Blue",
      theme_colors |-> "",
      edit_faculty |-> {},
      show_faculty_management |-> FALSE,
      faculty_selector |-> "",
      contract_type_selector |-> "FT",
      show_modal |-> FALSE,
      selected_instrument |-> "Unknown",
      modal_data |-> <<>> ]

\* The filters of main, in the order of the script: each is a test of the rows
\* and is applied when its widget is not at 'All' or is checked
FilterOrder ==
    <<"term", "style", "rating", "instrument", "bass", "piano", "drums", "vocal">>

\* FilterActive without the four "only" checkboxes: C13 fails for it
FilterActive_no_toggles(name, w) ==
    CASE name = "term" -> TRUE
      [] name = "style" -> w.style_filter # "All"
      [] name = "rating" -> ~w.rating_filter.all
      [] name = "instrument" -> w.instrument_filter # "All"
      [] OTHER -> FALSE

FilterActive(name, w) ==
    CASE name = "term" -> TRUE
      [] name = "style" -> w.style_filter # "All"
      [] name = "rating" -> ~w.rating_filter.all
      [] name = "instrument" -> w.instrument_filter # "All"
      [] name = "bass" -> w.bass_filter
      [] name = "piano" -> w.piano_filter
      [] name = "drums" -> w.drums_filter
      [] name = "vocal" -> w.vocal_filter

FilterTest(name, row, w) ==
    CASE name = "term" -> row.bSecTerm = w.term_filter
      [] name = "style" -> row.style = w.style_filter
      [] name = "rating" -> FEQ(row.ratingOverall, w.rating_filter.v)
      [] name = "instrument" -> row.needed[w.instrument_filter] > 0
      [] name = "bass" -> row.needed["BASS"] > 0
      [] name = "piano" -> row.needed["PNO"] > 0
      [] name = "drums" -> row.needed["DRUMS"] > 0
      [] name = "vocal" -> row.needed["VOICE"] > 0

\* filtered_df = filtered_df[test], filter after filter in the given order
RECURSIVE FilterInOrder(_, _, _)
FilterInOrder(order, d, w) ==
    IF Len(order) = 0 THEN d
    ELSE FilterInOrder(Tail(order),
                       IF FilterActive(Head(order), w)
                       THEN SelectSeq(d, LAMBDA row : FilterTest(Head(order), row, w))
                       ELSE d,
                       w)

ApplyFilters(d, w) == FilterInOrder(FilterOrder, d, w)

(***************************************************************************)
(* The four display values the passes over the rows build: course title,   *)
(* faculty, days and time.                                                 *)
(***************************************************************************)
\* x[0] if isinstance(x, list) and len(x) > 0 else 'N/A', of the course titles
course_title_of(ensemble) ==
    IF isinstance_list(ensemble.titlelongcrs) /\ Len(ensemble.titlelongcrs.v) > 0
    THEN Chars[ensemble.titlelongcrs.v[1]] ELSE Chars["N/A"]

\* ', '.join(x) if isinstance(x, list) else 'N/A', of the faculty names
faculty_of(ensemble) ==
    IF isinstance_list(ensemble.facnamepreffml)
    THEN join(Chars[", "], ensemble.facnamepreffml.v) ELSE Chars["N/A"]

\* reading ensemble[column]: KeyError when the table has no such column
KeyError(ensemble, column) ==
    IF ensemble[column].t = "missing" THEN "KeyError" ELSE ""

\* x[0] if isinstance(x, list) else 'N/A': IndexError on an empty list
FirstOrNA(ensemble, column) ==
    IF ensemble[column].t = "missing" THEN "KeyError"
    ELSE IF isinstance_list(ensemble[column]) /\ Len(ensemble[column].v) = 0
    THEN "IndexError" ELSE ""

\* the first of the exceptions, "" when there is none
RECURSIVE FirstException(_)
FirstException(es) ==
    IF Len(es) = 0 THEN ""
    ELSE IF Head(es) # "" THEN Head(es) ELSE FirstException(Tail(es))

\* what building days and time of a row raises
ScheduleRaises(ensemble) ==
    FirstException(<< KeyError(ensemble, "bSinCsmDays"),
                      FirstOrNA(ensemble, "bSinCsmStartTime"),
                      FirstOrNA(ensemble, "bSinCsmEndTime") >>)

\* what building course title and faculty of a row raises
TitleFacultyRaises(ensemble) ==
    FirstException(<< KeyError(ensemble, "titlelongcrs"),
                      KeyError(ensemble, "facnamepreffml") >>)

\* what building the four display values of a row raises
DisplayRaises(ensemble) ==
    FirstException(<<TitleFacultyRaises(ensemble), ScheduleRaises(ensemble)>>)

(***************************************************************************)
(* The priority scorer.                                                    *)
(***************************************************************************)
faculty_contract_mapping ==
    [ name \in { "Lello Molinari", "Eric Doob", "Sharik Hasan", "Robert Schlink",
                 "Consuelo Candelaria-Barry", "Albino Mbie", "Mark Copeland",
                 "Ricardo Monzon", "Alexandria Dewalt", "Robert Pate",
                 "Anastassiya Petrova", "Tolieth Marks", "Elan Trotman" } |->
        CASE name \in { "Lello Molinari", "Eric Doob", "Sharik Hasan", "Robert Schlink",
                        "Consuelo Candelaria-Barry" } -> "FT"
          [] name \in { "Albino Mbie", "Mark Copeland" } -> "PT3yr"
          [] name \in { "Ricardo Monzon", "Alexandria Dewalt", "Robert Pate",
                        "Anastassiya Petrova" } -> "PT_special"
          [] OTHER -> "adjunct" ]

\* categorize_faculty_contract that takes the contract type of the last
\* 'Update Contract Type' and Unknown after 'Reset All to Unknown': C21 fails for it
categorize_faculty_contract_updated(faculty_name) ==
    IF \E m \in panel.messages : m.kind = "warning" THEN "Unknown"
    ELSE IF \E m \in panel.messages : m.kind = "success" /\ m.faculty = faculty_name
    THEN (CHOOSE m \in panel.messages : m.kind = "success" /\ m.faculty = faculty_name).contract
    ELSE IF faculty_name \in DOMAIN faculty_contract_mapping
    THEN faculty_contract_mapping[faculty_name] ELSE "Unknown"

\* faculty_contract_mapping.get(faculty_name, 'Unknown')
categorize_faculty_contract(faculty_name) ==
    IF faculty_name \in DOMAIN faculty_contract_mapping
    THEN faculty_contract_mapping[faculty_name] ELSE "Unknown"

\* contract_priority.get(contract_type, 0)
contract_priority(contract_type) ==
    CASE contract_type = "FT" -> 4
      [] contract_type = "PT3yr" -> 3
      [] contract_type = "PT_special" -> 2
      [] contract_type = "adjunct" -> 1
      [] OTHER -> 0

\* get_registration_priority_score with student_score = enrolled_count * 3,
\* which a contract priority can outweigh: C6 fails for it
get_registration_priority_score_times_3(enrolled_count, contract_type) ==
    FAdd(FMul(enrolled_count, Flt(3)), Flt(contract_priority(contract_type)))

\* student_score + contract_score, with student_score = enrolled_count * 10
get_registration_priority_score(enrolled_count, contract_type) ==
    FAdd(FMul(enrolled_count, Flt(10)), Flt(contract_priority(contract_type)))

\* isinstance(faculty_names, list) and faculty_names
HasFaculty(row) == isinstance_list(row.facnamepreffml) /\ Len(row.facnamepreffml.v) > 0

\* priority_level with the tests for 3 and 2 students swapped: C9 fails for it
priority_level_swapped(enrolled_count) ==
    IF FEQ(enrolled_count, Flt(2)) THEN "HIGHEST - 3 instruments/ratings"
    ELSE IF FEQ(enrolled_count, Flt(3)) THEN "HIGH - 2 instruments/ratings"
    ELSE IF FEQ(enrolled_count, Flt(1)) THEN "MEDIUM - 1 instrument/rating"
    ELSE "LOW - 0 instruments/ratings"

\* the priority level of analyze_registration_preferences
priority_level(enrolled_count) ==
    IF FEQ(enrolled_count, Flt(3)) THEN "HIGHEST - 3 instruments/ratings"
    ELSE IF FEQ(enrolled_count, Flt(2)) THEN "HIGH - 2 instruments/ratings"
    ELSE IF FEQ(enrolled_count, Flt(1)) THEN "MEDIUM - 1 instrument/rating"
    ELSE "LOW - 0 instruments/ratings"

\* one entry of registration_data
RegistrationEntry(row) ==
    LET faculty_name == row.facnamepreffml.v[1]
        contract_type == categorize_faculty_contract(faculty_name)
    IN  [ section_name |-> row.sectionname,
          course_title |-> course_title_of(row),
          faculty |-> faculty_name,
          contract_type |-> contract_type,
          enrolled_count |-> row.activestucount,
          priority_score |->
              get_registration_priority_score(row.activestucount, contract_type),
          priority_level |-> priority_level(row.activestucount) ]

\* the rows analyze_registration_preferences scores: those with a faculty name
ScoredRows(d) == SelectSeq(d, HasFaculty)

(***************************************************************************)
(* list.sort(key=..., reverse=True) of CPython on a list of fewer than 64  *)
(* elements: the list is reversed, its leading run is found (and reversed  *)
(* when strictly descending), the rest is inserted by binary insertion,    *)
(* and the list is reversed back. Keys are compared with <.                *)
(***************************************************************************)
Reverse(s) == [k \in 1..Len(s) |-> s[Len(s) + 1 - k]]

KeyLT(x, y) == FLT(x.priority_score, y.priority_score)

RECURSIVE RunEnd(_, _, _)
RunEnd(a, k, descending) ==
    IF k = Len(a) THEN k
    ELSE IF descending = KeyLT(a[k + 1], a[k]) THEN RunEnd(a, k + 1, descending)
    ELSE k

RECURSIVE BinarySearch(_, _, _, _)
BinarySearch(a, pivot, l, r) ==
    IF l >= r THEN l
    ELSE LET p == l + ((r - l) \div 2)
         IN  IF KeyLT(pivot, a[p]) THEN BinarySearch(a, pivot, l, p)
             ELSE BinarySearch(a, pivot, p + 1, r)

RECURSIVE BinarySort(_, _)
BinarySort(a, start) ==
    IF start > Len(a) THEN a
    ELSE LET l == BinarySearch(a, a[start], 1, start)
             moved == [k \in 1..Len(a) |->
                          IF k < l \/ k > start THEN a[k]
                          ELSE IF k = l THEN a[start] ELSE a[k - 1]]
         IN  BinarySort(moved, start + 1)

ListSort(a) ==
    IF Len(a) < 2 THEN a
    ELSE LET descending == KeyLT(a[2], a[1])
             n == RunEnd(a, 2, descending)
             run == IF descending
                    THEN [k \in 1..Len(a) |-> IF k <= n THEN a[n + 1 - k] ELSE a[k]]
                    ELSE a
         IN  BinarySort(run, n + 1)

ListSortReverse(a) == Reverse(ListSort(Reverse(a)))

analyze_registration_preferences(d) ==
    LET rows == ScoredRows(d)
    IN  ListSortReverse([k \in 1..Len(rows) |-> RegistrationEntry(rows[k])])

(***************************************************************************)
(* main: the sidebar's "Priority Order" sort.                              *)
(***************************************************************************)
\* calculate_priority_score that scores a record without faculty as full time
\* (priority 4): C8 fails for it
calculate_priority_score_no_faculty_FT(row) ==
    LET contract_type ==
            IF HasFaculty(row) THEN categorize_faculty_contract(row.facnamepreffml.v[1])
            ELSE "FT"
    IN  FAdd(FMul(row.activestucount, Flt(10)), Flt(contract_priority(contract_type)))

\* calculate_priority_score(row), local to main
calculate_priority_score(row) ==
    LET contract_type ==
            IF HasFaculty(row) THEN categorize_faculty_contract(row.facnamepreffml.v[1])
            ELSE "Unknown"
    IN  FAdd(FMul(row.activestucount, Flt(10)), Flt(contract_priority(contract_type)))

IndexPermutations(n) == {p \in [1..n -> 1..n] : \A i, j \in 1..n : p[i] = p[j] => i = j}

\* DataFrame.sort_values(column): every order of the rows in which no row comes
\* after a row it must precede; the order of equal keys is left open (quicksort)
SortValues(d, Before(_, _)) ==
    { [k \in 1..Len(d) |-> d[q[k]]] : q \in
        { p \in IndexPermutations(Len(d)) :
            \A i, j \in 1..Len(d) : i < j => ~Before(d[p[j]], d[p[i]]) } }

\* NumberBefore that sorts upwards whatever 'ascending' is: C15 fails for it
NumberBefore_always_ascending(x, y, ascending) ==
    \/ ~IsNaN(x) /\ IsNaN(y)
    \/ FLT(x, y)

\* numeric keys: ascending or descending, NaN last (na_position='last')
NumberBefore(x, y, ascending) ==
    \/ ~IsNaN(x) /\ IsNaN(y)
    \/ IF ascending THEN FLT(x, y) ELSE FGT(x, y)

\* str < str, on the strings the model sorts by
SortedStrings ==
    << "", "Albino Mbie", "ENGT-120-004", "ENMX-100-001", "ENPN-210-002", "ENVC-330-003",
       "Jane Doe", "Lello Molinari", "Ricardo Monzon", "Tolieth Marks" >>
RankOf(str) == CHOOSE k \in 1..Len(SortedStrings) : SortedStrings[k] = str
StringBefore(x, y) == RankOf(x) < RankOf(y)

\* get_first_faculty(row), local to main
get_first_faculty(row) == IF HasFaculty(row) THEN row.facnamepreffml.v[1] ELSE ""

\* main's "Apply sorting based on user selection"
SortOptions ==
    { "Default (No Sorting)", "Priority Order", "Enrollment Count (High to Low)",
      "Enrollment Count (Low to High)", "Class Name (A-Z)", "Faculty Name (A-Z)" }

ApplySort(d, selected_sort) ==
    CASE selected_sort = "Priority Order" ->
            SortValues(d, LAMBDA x, y : NumberBefore(calculate_priority_score(x),
                                                     calculate_priority_score(y), FALSE))
      [] selected_sort = "Enrollment Count (High to Low)" ->
            SortValues(d, LAMBDA x, y : NumberBefore(x.activestucount, y.activestucount, FALSE))
      [] selected_sort = "Enrollment Count (Low to High)" ->
            SortValues(d, LAMBDA x, y : NumberBefore(x.activestucount, y.activestucount, TRUE))
      [] selected_sort = "Class Name (A-Z)" ->
            SortValues(d, LAMBDA x, y : StringBefore(x.sectionname, y.sectionname))
      [] selected_sort = "Faculty Name (A-Z)" ->
            SortValues(d, LAMBDA x, y : StringBefore(get_first_faculty(x), get_first_faculty(y)))
      [] OTHER -> {d}

(***************************************************************************)
(* The aggregator: the instrument summary of main and of                   *)
(* utils.get_instrument_summary (the same statements).                     *)
(***************************************************************************)
RECURSIVE SumSeq(_)
SumSeq(s) == IF Len(s) = 0 THEN 0 ELSE Head(s) + SumSeq(Tail(s))

\* Series.sum() of an integer column
SumOver(d, F(_)) == SumSeq([k \in 1..Len(d) |-> F(d[k])])

CountRows(d, P(_)) == Len(SelectSeq(d, P))

\* FillRate without the guard on total, as a float division: C4 fails for it
FillRateUnguarded(filled, total) == FMul(FDiv(Flt(filled), Flt(total)), Flt(100))

\* (filled / total * 100) if total > 0 else 0
FillRate(filled, total) ==
    IF total > 0 THEN [n |-> filled * 100, d |-> total] ELSE Flt(0)

InstrumentSummary(d, instrument) ==
    LET filled == CountRows(d, LAMBDA row : row.status[instrument] = "Filled")
        total == CountRows(d, LAMBDA row : row.needed[instrument] > 0)
    IN  [ Instrument |-> instrument,
          Needed |-> SumOver(d, LAMBDA row : row.needed[instrument]),
          Enrolled |-> SumOver(d, LAMBDA row : row.enrolled[instrument]),
          FilledEnsembles |-> filled,
          TotalEnsembles |-> total,
          FillRate |-> FillRate(filled, total) ]

get_instrument_summary(d) == [i \in InstrumentSet |-> InstrumentSummary(d, i)]

\* categorize_enrollment_rate with the upper bounds exclusive: C5 fails for it
categorize_enrollment_rate_exclusive(rate) ==
    IF FEQ(rate, Flt(0)) THEN "0% (No Students)"
    ELSE IF FLT(rate, Flt(25)) THEN "1-25% (Low)"
    ELSE IF FLT(rate, Flt(50)) THEN "26-50% (Medium)"
    ELSE IF FLT(rate, Flt(75)) THEN "51-75% (Good)"
    ELSE IF FLT(rate, Flt(99)) THEN "76-99% (High)"
    ELSE "100% (Full)"

\* categorize_enrollment_rate(rate), local to main
categorize_enrollment_rate(rate) ==
    IF FEQ(rate, Flt(0)) THEN "0% (No Students)"
    ELSE IF FLE(rate, Flt(25)) THEN "1-25% (Low)"
    ELSE IF FLE(rate, Flt(50)) THEN "26-50% (Medium)"
    ELSE IF FLE(rate, Flt(75)) THEN "51-75% (Good)"
    ELSE IF FLE(rate, Flt(99)) THEN "76-99% (High)"
    ELSE "100% (Full)"

(***************************************************************************)
(* The low-enrollment classifier, in its three places.                     *)
(***************************************************************************)
\* low_enrollment_classes = filtered_df[activestucount < 4]
IsLowEnrollment(row) == FLT(row.activestucount, Flt(4))
low_enrollment_classes(d) == SelectSeq(d, IsLowEnrollment)

\* main's "Determine severity level"
main_severity(enrolled_count) ==
    IF FEQ(enrolled_count, Flt(0))
    THEN [severity |-> "danger", status |-> "CRITICAL - NO STUDENTS"]
    ELSE IF FEQ(enrolled_count, Flt(1))
    THEN [severity |-> "danger", status |-> "CRITICAL - ONLY 1 STUDENT"]
    ELSE IF FEQ(enrolled_count, Flt(2))
    THEN [severity |-> "warning", status |-> "WARNING - ONLY 2 STUDENTS"]
    ELSE [severity |-> "warning", status |-> "WARNING - ONLY 3 STUDENTS"]

\* get_enrollment_status without its branch for 3 students: C10 fails for it
get_enrollment_status_no_3(enrolled_count, total_capacity) ==
    IF FEQ(enrolled_count, Flt(0))
    THEN [severity |-> "danger", status |-> "CRITICAL - NO STUDENTS"]
    ELSE IF FEQ(enrolled_count, Flt(1))
    THEN [severity |-> "danger", status |-> "CRITICAL - ONLY 1 STUDENT"]
    ELSE IF FEQ(enrolled_count, Flt(2))
    THEN [severity |-> "warning", status |-> "WARNING - ONLY 2 STUDENTS"]
    ELSE IF FLT(FMul(FDiv(enrolled_count, total_capacity), Flt(100)), Flt(25))
    THEN [severity |-> "warning", status |-> "LOW ENROLLMENT"]
    ELSE [severity |-> "success", status |-> "GOOD ENROLLMENT"]

\* utils.get_enrollment_status(enrolled_count, total_capacity): severity and the
\* status text up to the rate it prints
get_enrollment_status(enrolled_count, total_capacity) ==
    IF FEQ(enrolled_count, Flt(0))
    THEN [severity |-> "danger", status |-> "CRITICAL - NO STUDENTS"]
    ELSE IF FEQ(enrolled_count, Flt(1))
    THEN [severity |-> "danger", status |-> "CRITICAL - ONLY 1 STUDENT"]
    ELSE IF FEQ(enrolled_count, Flt(2))
    THEN [severity |-> "warning", status |-> "WARNING - ONLY 2 STUDENTS"]
    ELSE IF FEQ(enrolled_count, Flt(3))
    THEN [severity |-> "warning", status |-> "WARNING - ONLY 3 STUDENTS"]
    ELSE IF FLT(FMul(FDiv(enrolled_count, total_capacity), Flt(100)), Flt(25))
    THEN [severity |-> "warning", status |-> "LOW ENROLLMENT"]
    ELSE [severity |-> "success", status |-> "GOOD ENROLLMENT"]

\* components.display_low_enrollment_alert(ensemble): the severity it renders
display_low_enrollment_alert(ensemble) ==
    IF FEQ(ensemble.activestucount, Flt(0))
    THEN [severity |-> "danger", status |-> "CRITICAL - NO STUDENTS"]
    ELSE IF FEQ(ensemble.activestucount, Flt(1))
    THEN [severity |-> "danger", status |-> "CRITICAL - ONLY 1 STUDENT"]
    ELSE IF FEQ(ensemble.activestucount, Flt(2))
    THEN [severity |-> "warning", status |-> "WARNING - ONLY 2 STUDENTS"]
    ELSE [severity |-> "warning", status |-> "WARNING - ONLY 3 STUDENTS"]

(***************************************************************************)
(* identify_performance_classes.                                           *)
(***************************************************************************)
\* any(keyword in text for keyword in keywords)
AnyIn(keywords, text) == \E w \in keywords : Contains(text, Chars[w])

\* a reason: its f-string and the faculty text put into it
Reason(text, faculty) == [text |-> text, faculty |-> faculty]

\* performance_reason with the test of the course title before the two others:
\* C12 fails for it
performance_reason_title_first(ensemble) ==
    IF AnyIn({"PERFORMANCE", "ENSEMBLE", "RECITAL"}, upper(course_title_of(ensemble)))
    THEN Reason("Performance/Ensemble Class", <<>>)
    ELSE IF Contains(Chars[ensemble.sectionname], Chars["ENMX-100"])
    THEN Reason("ENMX-100 Performance Class", <<>>)
    ELSE IF AnyIn({"PISJ", "ENDS"}, faculty_of(ensemble))
    THEN Reason("Faculty {faculty} - Cannot be scheduled for rating auditions",
                faculty_of(ensemble))
    ELSE Reason("", <<>>)

\* the if/elif/elif of identify_performance_classes: performance_reason, ""
\* when the row is no performance class
performance_reason(ensemble) ==
    IF Contains(Chars[ensemble.sectionname], Chars["ENMX-100"])
    THEN Reason("ENMX-100 Performance Class", <<>>)
    ELSE IF AnyIn({"PISJ", "ENDS"}, faculty_of(ensemble))
    THEN Reason("Faculty {faculty} - Cannot be scheduled for rating auditions",
                faculty_of(ensemble))
    ELSE IF AnyIn({"PERFORMANCE", "ENSEMBLE", "RECITAL"}, upper(course_title_of(ensemble)))
    THEN Reason("Performance/Ensemble Class", <<>>)
    ELSE Reason("", <<>>)

is_performance_class(ensemble) == performance_reason(ensemble).text # ""

PerformanceEntry(ensemble) ==
    [ section_name |-> ensemble.sectionname,
      course_title |-> course_title_of(ensemble),
      faculty |-> faculty_of(ensemble),
      enrolled_count |-> ensemble.activestucount,
      performance_reason |-> performance_reason(ensemble) ]

\* what the loop of identify_performance_classes raises
PerformanceRaises(d) ==
    FirstException([k \in 1..Len(d) |->
        IF TitleFacultyRaises(d[k]) # "" THEN TitleFacultyRaises(d[k])
        ELSE IF is_performance_class(d[k]) THEN ScheduleRaises(d[k]) ELSE ""])

\* identify_performance_classes(df), when it does not raise
identify_performance_classes(d) ==
    LET rows == SelectSeq(d, is_performance_class)
    IN  [k \in 1..Len(rows) |-> PerformanceEntry(rows[k])]

(***************************************************************************)
(* main: the free-text searches.                                           *)
(***************************************************************************)
\* any(term.lower() in str(name).lower() for name in x) if isinstance(x, list) else False
AnyContains(x, term) ==
    /\ isinstance_list(x)
    /\ \E k \in 1..Len(x.v) : Contains(lower(Chars[x.v[k]]), lower(Chars[term]))

\* the mask of the searches over a table: str.contains(term, case=False,
\* na=False) on the section name, which reads term as a regular expression,
\* or the term in a faculty name, or in a course title
SearchMask(row, term) ==
    \/ re_search_ignorecase(Chars[term], Chars[row.sectionname])
    \/ AnyContains(row.facnamepreffml, term)
    \/ AnyContains(row.titlelongcrs, term)

\* what building the mask raises
SearchRaises(dfull, term) ==
    IF re_error(Chars[term]) THEN "re.error"
    ELSE IF Len(dfull) > 0
    THEN FirstException(<< KeyError(dfull[1], "facnamepreffml"),
                           KeyError(dfull[1], "titlelongcrs") >>)
    ELSE ""

\* table[mask] if term else table
SearchTable(d, term) ==
    IF term = "" THEN d ELSE SelectSeq(d, LAMBDA row : SearchMask(row, term))

\* the searches over a list of dicts: the term, lower-cased, in the lower-cased
\* section name, course title or faculty text of the entry
DictMatches(section_name, course_title, faculty, term) ==
    \/ Contains(lower(Chars[section_name]), lower(Chars[term]))
    \/ Contains(lower(course_title), lower(Chars[term]))
    \/ Contains(lower(faculty), lower(Chars[term]))

(***************************************************************************)
(* main: the "Other Critical Alerts" section.                              *)
(***************************************************************************)
\* the mask of critical_ensembles with | applied before &: C11 fails for it
IsCritical_or_first(row) ==
    /\ FLT(row.enrollment_rate, Flt(25))
    /\ FGE(row.activestucount, Flt(4)) \/ FEQ(row.seatsavail, Flt(0))

\* (enrollment_rate < 25) & (activestucount >= 4) | (seatsavail == 0)
IsCritical(row) ==
    \/ FLT(row.enrollment_rate, Flt(25)) /\ FGE(row.activestucount, Flt(4))
    \/ FEQ(row.seatsavail, Flt(0))

critical_ensembles(d) == SelectSeq(d, IsCritical)

\* the two tests made on each row of critical_ensembles
low_rate_alert(ensemble) ==
    FLT(ensemble.enrollment_rate, Flt(25)) /\ FGE(ensemble.activestucount, Flt(4))
full_capacity_alert(ensemble) == FEQ(ensemble.seatsavail, Flt(0))

\* the alert boxes of the section, in the order they are written
AlertsOf(ensemble) ==
    (IF low_rate_alert(ensemble)
     THEN <<[alert |-> "Low Enrollment Alert", section_name |-> ensemble.sectionname]>>
     ELSE <<>>)
    \o (IF full_capacity_alert(ensemble)
        THEN <<[alert |-> "Full Capacity", section_name |-> ensemble.sectionname]>>
        ELSE <<>>)

RECURSIVE Flatten(_)
Flatten(ss) == IF Len(ss) = 0 THEN <<>> ELSE Head(ss) \o Flatten(Tail(ss))

other_critical_alerts(d) ==
    LET crit == critical_ensembles(d)
    IN  Flatten([k \in 1..Len(crit) |-> AlertsOf(crit[k])])

(***************************************************************************)
(* main: the sections below the sidebar, in the order the script writes    *)
(* them. A section ends "ok", with main's return, or with an exception;    *)
(* it tells the st.info and st.success texts and the widgets it has shown. *)
(***************************************************************************)
Ok(info, keys) == [out |-> "ok", exc |-> "", info |-> info, widgets |-> keys]
Return(info, keys) == [out |-> "return", exc |-> "", info |-> info, widgets |-> keys]
Raise(exc, keys) == [out |-> "raise", exc |-> exc, info |-> {}, widgets |-> keys]

\* the first exception of building the display values of the rows, in their order
RowsRaise(rows) == FirstException([k \in 1..Len(rows) |-> DisplayRaises(rows[k])])

\* "Instrument Status Overview": instrument_classes_data, per instrument the
\* rows that need it
InstrumentOverview(dfull, d, w) ==
    LET exc == FirstException([i \in 1..Len(Instruments) |->
                   RowsRaise(SelectSeq(d, LAMBDA row : row.needed[Instruments[i]] > 0))])
    IN  IF exc # "" THEN Raise(exc, {}) ELSE Ok({}, {})

\* extract_time_slot(time_str): the tests are substring tests on the first string
extract_time_slot(time_str) ==
    IF isinstance_list(time_str) /\ Len(time_str.v) > 0
    THEN LET time == Chars[time_str.v[1]]
         IN  IF Contains(time, Chars["AM"]) THEN "Morning"
             ELSE IF Contains(time, Chars["PM"])
             THEN (IF \/ Contains(time, Chars["12:"])
                      \/ Contains(time, Chars["1:"])
                      \/ Contains(time, Chars["2:"])
                      \/ Contains(time, Chars["3:"])
                   THEN "Afternoon" ELSE "Evening")
             ELSE "Unknown"
    ELSE "Unknown"

\* filtered_df['time_slot']
time_slot(d) == [k \in 1..Len(d) |-> extract_time_slot(d[k].bSinCsmStartTime)]

\* "Additional Analytics": the time slots read the start-time column
AdditionalAnalytics(dfull, d, w) ==
    IF KeyError(dfull[1], "bSinCsmStartTime") # "" THEN Raise("KeyError", {}) ELSE Ok({}, {})

\* "Faculty Workload Analysis"
FacultyWorkload(dfull, d, w) ==
    IF Len(d) > 0 /\ KeyError(d[1], "facnamepreffml") # "" THEN Raise("KeyError", {})
    ELSE IF \E k \in 1..Len(d) : HasFaculty(d[k]) THEN Ok({}, {})
    ELSE Ok({"No faculty data available for analysis."}, {})

\* display_df of "Ensemble Details"
display_df(d, w) == SearchTable(d, w.search_input)

\* "Ensemble Details": the search, the table and its download
EnsembleDetails(dfull, d, w) ==
    LET shown == {"search_input"}
        columns == FirstException(<< KeyError(dfull[1], "titlelongcrs"),
                                     KeyError(dfull[1], "facnamepreffml"),
                                     KeyError(dfull[1], "bSinCsmDays"),
                                     KeyError(dfull[1], "bSinCsmStartTime"),
                                     KeyError(dfull[1], "bSinCsmEndTime") >>)
        table == display_df(d, w)
    IN  IF w.search_input # "" /\ SearchRaises(dfull, w.search_input) # ""
        THEN Raise(SearchRaises(dfull, w.search_input), shown)
        ELSE IF Len(table) = 0
        THEN Ok({"No ensembles found matching the search criteria."}, shown)
        ELSE IF columns # "" THEN Raise(columns, shown)
        ELSE IF RowsRaise(table) # "" THEN Raise(RowsRaise(table), shown)
        ELSE Ok({}, shown)

\* A searched list of rows: the tabs of "Classes Needing Specific Instruments"
\* and the low-enrollment section share the statements
SearchedRows(dfull, rows, w, key, none_needed, none_found) ==
    LET found == SearchTable(rows, w[key])
    IN  IF Len(rows) = 0 THEN Ok({none_needed}, {})
        ELSE IF w[key] # "" /\ SearchRaises(dfull, w[key]) # ""
        THEN Raise(SearchRaises(dfull, w[key]), {key})
        ELSE IF Len(found) = 0 THEN Return({none_found}, {key})
        ELSE IF RowsRaise(found) # "" THEN Raise(RowsRaise(found), {key})
        ELSE Ok({}, {key})

BassNeeded(dfull, d, w) ==
    SearchedRows(dfull, SelectSeq(d, LAMBDA row : row.needed["BASS"] > 0), w, "bass_search",
                 "No classes currently need Bass players!",
                 "No Bass classes found matching the search criteria.")
PianoNeeded(dfull, d, w) ==
    SearchedRows(dfull, SelectSeq(d, LAMBDA row : row.needed["PNO"] > 0), w, "piano_search",
                 "No classes currently need Piano players!",
                 "No Piano classes found matching the search criteria.")
DrumsNeeded(dfull, d, w) ==
    SearchedRows(dfull, SelectSeq(d, LAMBDA row : row.needed["DRUMS"] > 0), w, "drums_search",
                 "No classes currently need Drummers!",
                 "No Drums classes found matching the search criteria.")
LowEnrollment(dfull, d, w) ==
    SearchedRows(dfull, low_enrollment_classes(d), w, "low_enrollment_search",
                 "No classes with less than 4 students enrolled!",
                 "No low enrollment classes found matching the search criteria.")

\* performance_classes after the search of the performance section
performance_found(d, w) ==
    LET found == identify_performance_classes(d)
    IN  IF w.performance_search = "" THEN found
        ELSE SelectSeq(found, LAMBDA e : DictMatches(e.section_name, e.course_title,
                                                     e.faculty, w.performance_search))

\* the performance-classes section
PerformanceClasses(dfull, d, w) ==
    LET exc == PerformanceRaises(d)
    IN  IF exc # "" THEN Raise(exc, {})
    ELSE IF \A k \in 1..Len(d) : ~is_performance_class(d[k])
    THEN Ok({"No performance classes found!"}, {})
    ELSE IF Len(performance_found(d, w)) = 0
    THEN Return({"No performance classes found matching the search criteria."},
                {"performance_search"})
    ELSE Ok({}, {"performance_search"})

\* what the loop of analyze_registration_preferences raises
RegistrationRaises(d) ==
    FirstException([k \in 1..Len(d) |->
        IF KeyError(d[k], "facnamepreffml") # "" THEN "KeyError"
        ELSE IF HasFaculty(d[k])
        THEN FirstException(<<KeyError(d[k], "titlelongcrs"), ScheduleRaises(d[k])>>)
        ELSE ""])

\* registration_data after the search of the registration section
registration_found(d, w) ==
    LET found == analyze_registration_preferences(d)
    IN  IF w.registration_search = "" THEN found
        ELSE SelectSeq(found, LAMBDA rd : DictMatches(rd.section_name, rd.course_title,
                                                      Chars[rd.faculty], w.registration_search))

PriorityOptions ==
    << "All Priorities", "HIGHEST - 3 Students", "HIGH - 2 Students",
       "MEDIUM - 1 Student", "LOW - 0 Students" >>
ContractOptions == <<"All Contracts", "FT", "PT3yr", "PT_special", "adjunct", "Unknown">>

\* registration_data after the two selectboxes
registration_data(d, w) ==
    LET found == registration_found(d, w)
        by_priority ==
            IF w.priority_filter = "All Priorities" THEN found
            ELSE SelectSeq(found, LAMBDA rd : rd.priority_level = w.priority_filter)
    IN  IF w.registration_contract_filter = "All Contracts" THEN by_priority
        ELSE SelectSeq(by_priority,
                       LAMBDA rd : rd.contract_type = w.registration_contract_filter)

\* the four tabs of the placement list: the entries of a tab are those whose
\* priority_level is the tab's text
TabEntries(data, tab) ==
    SelectSeq(data, LAMBDA rd : rd.priority_level = PriorityOptions[tab + 1])
TabInfo(tab) ==
    CASE tab = 1 -> "No classes in HIGHEST priority category."
      [] tab = 2 -> "No classes in HIGH priority category."
      [] tab = 3 -> "No classes in MEDIUM priority category."
      [] tab = 4 -> "No classes in LOW priority category."

\* the registration-preferences section
RegistrationPreferences(dfull, d, w) ==
    LET shown == {"registration_search", "priority_filter", "registration_contract_filter"}
        exc == RegistrationRaises(d)
        data == registration_data(d, w)
    IN  IF exc # "" THEN Raise(exc, {})
        ELSE IF \A k \in 1..Len(d) : ~HasFaculty(d[k])
        THEN Ok({"No registration data available for analysis."}, {})
        ELSE IF Len(registration_found(d, w)) = 0
        THEN Return({"No classes found matching the search criteria."}, {"registration_search"})
        ELSE Ok({TabInfo(tab) : tab \in {t \in 1..4 : Len(TabEntries(data, t)) = 0}}, shown)

\* the "Other Critical Alerts" section
CriticalAlerts(dfull, d, w) ==
    IF Len(critical_ensembles(d)) = 0
    THEN Ok({"No other critical alerts at this time."}, {})
    ELSE Ok({}, {})

(***************************************************************************)
(* The CSV export of "Ensemble Details". The model's table holds the text  *)
(* columns Section, Course Title, Faculty and Time; the numeric columns,   *)
(* Style and Days are written the same way and are left out.               *)
(***************************************************************************)
ExportHeader == <<Chars["Section"], Chars["Course Title"], Chars["Faculty"], Chars["Time"]>>

\* x[0] if isinstance(x, list) else 'N/A' of main's Time column, for a row
\* that does not raise
FirstOrNAText(x) == IF isinstance_list(x) THEN Chars[x.v[1]] ELSE Chars["N/A"]

\* utils.format_time_range: the lists are also tested for their length
format_time_range(start_time, end_time) ==
    LET start == IF isinstance_list(start_time) /\ Len(start_time.v) > 0
                 THEN Chars[start_time.v[1]] ELSE Chars["N/A"]
        end == IF isinstance_list(end_time) /\ Len(end_time.v) > 0
               THEN Chars[end_time.v[1]] ELSE Chars["N/A"]
    IN  start \o Chars[" - "] \o end

\* final_df of main: the exception of building it, or its rows
final_df(table) ==
    IF RowsRaise(table) # "" THEN [exc |-> RowsRaise(table), rows |-> <<>>]
    ELSE [ exc |-> "",
           rows |-> [k \in 1..Len(table) |->
                        << Chars[table[k].sectionname],
                           course_title_of(table[k]),
                           faculty_of(table[k]),
                           FirstOrNAText(table[k].bSinCsmStartTime) \o Chars[" - "]
                               \o FirstOrNAText(table[k].bSinCsmEndTime) >>] ]

\* utils.prepare_download_data(df, 'ensemble')
prepare_download_data(table) ==
    LET columns == FirstException([k \in 1..Len(table) |->
                       FirstException(<< TitleFacultyRaises(table[k]),
                                         KeyError(table[k], "bSinCsmDays"),
                                         KeyError(table[k], "bSinCsmStartTime"),
                                         KeyError(table[k], "bSinCsmEndTime") >>)])
    IN  IF columns # "" THEN [exc |-> columns, rows |-> <<>>]
        ELSE [ exc |-> "",
               rows |-> [k \in 1..Len(table) |->
                            << Chars[table[k].sectionname],
                               course_title_of(table[k]),
                               faculty_of(table[k]),
                               format_time_range(table[k].bSinCsmStartTime,
                                                 table[k].bSinCsmEndTime) >>] ]

\* csv.writer with QUOTE_MINIMAL: a field that holds the delimiter, the quote
\* character or the line terminator is put in quotes, its quotes doubled
RECURSIVE DoubleQuotes(_)
DoubleQuotes(field) ==
    IF Len(field) = 0 THEN <<>>
    ELSE (IF Head(field) = "\"" THEN <<"\"", "\"">> ELSE <<Head(field)>>)
             \o DoubleQuotes(Tail(field))
CsvField(field) ==
    IF \E k \in 1..Len(field) : field[k] \in {",", "\"", "\n"}
    THEN <<"\"">> \o DoubleQuotes(field) \o <<"\"">>
    ELSE field
RECURSIVE CsvLine(_)
CsvLine(fields) ==
    IF Len(fields) = 1 THEN CsvField(fields[1]) \o <<"\n">>
    ELSE CsvField(Head(fields)) \o <<",">> \o CsvLine(Tail(fields))
RECURSIVE CsvLines(_)
CsvLines(rows) == IF Len(rows) = 0 THEN <<>> ELSE CsvLine(Head(rows)) \o CsvLines(Tail(rows))

\* DataFrame.to_csv(index=False): the header line, then a line per row
to_csv(rows) == CsvLine(ExportHeader) \o CsvLines(rows)

\* csv.reader, a character at a time
ReaderStart == [mode |-> "start", field |-> <<>>, row |-> <<>>, rows |-> <<>>]
EndField(s) == [s EXCEPT !.mode = "start", !.field = <<>>, !.row = Append(@, s.field)]
EndRow(s) ==
    [s EXCEPT !.mode = "start", !.field = <<>>, !.row = <<>>,
              !.rows = Append(@, Append(s.row, s.field))]
ReaderStep(s, c) ==
    CASE s.mode = "quoted" /\ c = "\"" -> [s EXCEPT !.mode = "quote"]
      [] s.mode = "quoted" /\ c # "\"" -> [s EXCEPT !.field = Append(@, c)]
      [] s.mode = "quote" /\ c = "\"" -> [s EXCEPT !.mode = "quoted", !.field = Append(@, c)]
      [] s.mode = "start" /\ c = "\"" -> [s EXCEPT !.mode = "quoted"]
      [] s.mode # "quoted" /\ c = "," -> EndField(s)
      [] s.mode # "quoted" /\ c = "\n" -> EndRow(s)
      [] OTHER -> [s EXCEPT !.mode = "plain", !.field = Append(@, c)]
\* the reader's state after the characters lo..hi of the text, from the state s
\* (the steps are taken from left to right, the range is halved to do so)
RECURSIVE ReadRange(_, _, _, _)
ReadRange(text, lo, hi, s) ==
    IF lo > hi THEN s
    ELSE IF lo = hi THEN ReaderStep(s, text[lo])
    ELSE CHOOSE r \in
             { ReadRange(text, ((lo + hi) \div 2) + 1, hi, s1) :
                 s1 \in {ReadRange(text, lo, (lo + hi) \div 2, s)} } : TRUE
csv_reader(text) ==
    CHOOSE rows \in { (IF r.mode = "start" /\ r.row = <<>> THEN r.rows ELSE EndRow(r).rows) :
                         r \in UNION { {ReadRange(t, 1, Len(t), s0) : s0 \in {ReaderStart}} :
                                         t \in {text} } } : TRUE

(***************************************************************************)
(* The headline metrics: the cards of main and utils.calculate_metrics.    *)
(***************************************************************************)
\* Series.sum(): the values that are NaN are skipped, an empty sum is 0
RECURSIVE SeriesSum(_)
SeriesSum(values) ==
    IF Len(values) = 0 THEN Flt(0)
    ELSE IF IsNaN(Head(values)) THEN SeriesSum(Tail(values))
    ELSE FAdd(Head(values), SeriesSum(Tail(values)))

\* int(x) of a finite float: the fraction is cut off
int(x) == Sign(x.n) * (Abs(x.n) \div x.d)

\* the four cards at the top of the page
metric_cards(d) ==
    [ total_ensembles |-> Len(d),
      total_seats |-> int(SeriesSum([k \in 1..Len(d) |-> d[k].seatscap])),
      enrolled_students |-> int(SeriesSum([k \in 1..Len(d) |-> d[k].activestucount])),
      open_seats |-> int(SeriesSum([k \in 1..Len(d) |-> d[k].open_seats])) ]

\* utils.calculate_metrics(df), its first four entries
calculate_metrics(d) ==
    [ total_ensembles |-> Len(d),
      total_seats |-> int(SeriesSum([k \in 1..Len(d) |-> d[k].seatscap])),
      enrolled_students |-> int(SeriesSum([k \in 1..Len(d) |-> d[k].activestucount])),
      open_seats |-> int(SeriesSum([k \in 1..Len(d) |-> d[k].open_seats])) ]

(***************************************************************************)
(* The Faculty Contract Management panel and the instrument modal: both    *)
(* are shown while a flag of st.session_state is set.                      *)
(***************************************************************************)
NoPanel ==
    [ shown |-> FALSE, exc |-> "", faculty_list |-> {}, selected_faculty |-> "",
      contracts |-> <<>>, messages |-> {}, edit_open |-> {} ]

\* st.session_state['theme_colors'] = theme_colors[selected_color_theme]; the
\* model holds the name of the theme for its three colors
AfterThemeSelectors(w) == [w EXCEPT !.theme_colors = w.color_theme_selector]

\* the button of the header flips show_faculty_management before the panel
AfterPanelButton(w) ==
    IF w.clicked = "faculty_contract_btn"
    THEN [w EXCEPT !.show_faculty_management = ~@] ELSE w

\* edit_key: f"edit_{name.replace(' ', '_').replace('-', '_')}", as characters
edit_key(faculty) ==
    <<"e", "d", "i", "t", "_">>
        \o [k \in 1..Len(Chars[faculty]) |->
               IF Chars[faculty][k] \in {" ", "-"} THEN "_" ELSE Chars[faculty][k]]

\* the Edit button under a card flips the flag edit_faculty_<edit_key>; the model
\* holds the keys whose flag is True
AfterEditButton(w) ==
    IF w.clicked = "edit_btn"
    THEN [w EXCEPT !.edit_faculty = IF w.clicked_key \in @ THEN @ \ {w.clicked_key}
                                      ELSE @ \cup {w.clicked_key}]
    ELSE w

\* all_faculty: the names of the lists of the filtered rows
all_faculty(d) ==
    UNION { {d[k].facnamepreffml.v[j] : j \in 1..Len(d[k].facnamepreffml.v)} :
              k \in {i \in 1..Len(d) : isinstance_list(d[i].facnamepreffml)} }

\* the value of a selectbox: the stored one if it is an option, else the first
FirstName(names) == CHOOSE n \in names : \A o \in names : o = n \/ StringBefore(n, o)
SelectedFaculty(names, w) ==
    IF w.faculty_selector \in names THEN w.faculty_selector ELSE FirstName(names)

\* what the two contract buttons write; neither stores anything
ContractMessages(selected_faculty, w) ==
    IF w.clicked = "update_contract_btn"
    THEN { [ kind |-> "success", text |-> "Updated contract type",
             faculty |-> selected_faculty, contract |-> w.contract_type_selector ],
           [ kind |-> "info", text |-> "would be saved to a database",
             faculty |-> "", contract |-> "" ] }
    ELSE IF w.clicked = "save_image_btn"
    THEN { [ kind |-> "success", text |-> "Image saved successfully",
             faculty |-> selected_faculty, contract |-> "" ] }
    ELSE IF w.clicked = "reset_contracts_btn"
    THEN { [ kind |-> "warning", text |-> "Reset all faculty contract types to 'Unknown'!",
             faculty |-> "", contract |-> "" ],
           [ kind |-> "info", text |-> "would update the database",
             faculty |-> "", contract |-> "" ] }
    ELSE {}

\* the panel for the filtered rows d and the widgets w (after the header button)
FacultyPanel(d, w) ==
    IF ~w.show_faculty_management THEN NoPanel
    ELSE IF Len(d) > 0 /\ KeyError(d[1], "facnamepreffml") # ""
    THEN [NoPanel EXCEPT !.exc = "KeyError"]
    ELSE IF all_faculty(d) = {}
    THEN [NoPanel EXCEPT !.shown = TRUE,
                         !.messages = {[ kind |-> "info",
                                         text |-> "No faculty data available for management.",
                                         faculty |-> "", contract |-> "" ]}]
    ELSE [ shown |-> TRUE,
           exc |-> "",
           faculty_list |-> all_faculty(d),
           selected_faculty |-> SelectedFaculty(all_faculty(d), w),
           contracts |-> [f \in all_faculty(d) |-> categorize_faculty_contract(f)],
           messages |-> ContractMessages(SelectedFaculty(all_faculty(d), w), w),
           edit_open |-> {f \in all_faculty(d) : edit_key(f) \in AfterEditButton(w).edit_faculty} ]

\* the widgets of the panel keep their values only while it is shown
AfterPanel(w, p) ==
    IF p.shown /\ p.faculty_list # {}
    THEN [AfterEditButton(w) EXCEPT !.faculty_selector = p.selected_faculty]
    ELSE [w EXCEPT !.faculty_selector = "", !.contract_type_selector = "FT"]

InstrumentButtons ==
    [ btn_guit |-> "GUIT", btn_pno |-> "PNO", btn_bass |-> "BASS", btn_drums |-> "DRUMS",
      btn_voice |-> "VOICE" ]

\* instrument_classes_data[instrument]: the filtered rows that need it
instrument_classes(d, instrument) ==
    LET rows == SelectSeq(d, LAMBDA row : row.needed[instrument] > 0)
    IN  [k \in 1..Len(rows) |->
            [ section_name |-> rows[k].sectionname,
              instrument |-> instrument,
              status |-> rows[k].status[instrument] ]]

\* a 'View ... Classes' button stores the instrument, its classes and the flag
AfterInstrumentButton(d, w) ==
    IF w.clicked \in DOMAIN InstrumentButtons
    THEN [w EXCEPT !.selected_instrument = InstrumentButtons[w.clicked],
                   !.show_modal = TRUE,
                   !.modal_data = instrument_classes(d, InstrumentButtons[w.clicked])]
    ELSE w

NoModal == [shown |-> FALSE, instrument |-> "", classes |-> <<>>]

\* the modal shows what st.session_state holds
Modal(w) ==
    IF w.show_modal
    THEN [shown |-> TRUE, instrument |-> w.selected_instrument, classes |-> w.modal_data]
    ELSE NoModal

(***************************************************************************)
(* The faculty files: faculty_images/<safe name>.<extension>. A path is    *)
(* the pair of the safe name (as characters) and the extension.            *)
(***************************************************************************)
\* c.isalnum() or c in (' ', '-', '_')
SafeChar(c) ==
    \/ IndexIn(ascii_lowercase, c) > 0
    \/ IndexIn(ascii_uppercase, c) > 0
    \/ c \in {"0", "1", "2", "3", "4", "5", "6", "7", "8", "9", " ", "-", "_"}

RECURSIVE rstrip(_)
rstrip(s) == IF Len(s) > 0 /\ s[Len(s)] = " " THEN rstrip(SubSeq(s, 1, Len(s) - 1)) ELSE s

\* "".join(c for c in faculty_name if ...).rstrip().replace(' ', '_')
safe_name(faculty_name) ==
    LET kept == rstrip(SelectSeq(Chars[faculty_name], SafeChar))
    IN  [k \in 1..Len(kept) |-> IF kept[k] = " " THEN "_" ELSE kept[k]]

\* uploaded_file.name.split('.')[-1].lower()
file_extension(name) ==
    LET s == Chars[name]
        dot == CHOOSE i \in 0..Len(s) :
                   (i = 0 \/ s[i] = ".") /\ \A j \in (i + 1)..Len(s) : s[j] # "."
        last == SubSeq(s, dot + 1, Len(s))
        lowered == [k \in 1..Len(last) |-> lower_char[last[k]]]
    IN  CHOOSE e \in DOMAIN Chars : Chars[e] = lowered

extensions == <<"jpg", "jpeg", "png", "pdf">>
NoFile == [path |-> <<>>, type |-> ""]

\* get_faculty_image_path(faculty_name) in the directory files: the first of
\* the four extensions whose file exists
ImagePath(files, faculty_name) ==
    LET found == {k \in 1..Len(extensions) :
                     <<safe_name(faculty_name), extensions[k]>> \in DOMAIN files}
    IN  IF found = {} THEN NoFile
        ELSE LET k == CHOOSE i \in found : \A j \in found : i <= j
             IN  [path |-> <<safe_name(faculty_name), extensions[k]>>, type |-> extensions[k]]

get_faculty_image_path(faculty_name) == ImagePath(faculty_images, faculty_name)

\* save_faculty_image(faculty_name, uploaded_file): the directory after the call
\* (the file's content is named after the uploaded file), and what it returns
save_faculty_image(files, faculty_name, uploaded_file) ==
    LET path == <<safe_name(faculty_name), file_extension(uploaded_file)>>
    IN  IF file_extension(uploaded_file) \notin {"jpg", "jpeg", "png", "pdf"}
        THEN [files |-> files, ok |-> FALSE]
        ELSE [files |-> [q \in DOMAIN files \cup {path} |->
                            IF q = path THEN uploaded_file ELSE files[q]],
              ok |-> TRUE]

NoSave == [ok |-> FALSE, faculty |-> "", file |-> "", before |-> <<>>]

\* a click on a save button calls save_faculty_image before the page is written
Save(faculty_name, uploaded_file) ==
    \E r \in {save_faculty_image(faculty_images, faculty_name, uploaded_file)} :
        /\ faculty_images' = r.files
        /\ saved' = [ok |-> r.ok, faculty |-> faculty_name, file |-> uploaded_file,
                     before |-> faculty_images]

(***************************************************************************)
(* The script runs.                                                        *)
(***************************************************************************)
\* Every outcome of main's filter and sort for the widgets w
Render(d, w) == ApplySort(ApplyFilters(d, w), w.sort_filter)

SectionOrder ==
    << "Metrics", "Instrument Status Overview", "Analytics", "Additional Analytics",
       "Faculty Workload Analysis", "Ensemble Details", "Bass Needed", "Piano Needed",
       "Drums Needed", "Low Enrollment", "Performance Classes",
       "Registration Preferences", "Other Critical Alerts" >>

Section(name, dfull, d, w) ==
    CASE name = "Instrument Status Overview" -> InstrumentOverview(dfull, d, w)
      [] name = "Additional Analytics" -> AdditionalAnalytics(dfull, d, w)
      [] name = "Faculty Workload Analysis" -> FacultyWorkload(dfull, d, w)
      [] name = "Ensemble Details" -> EnsembleDetails(dfull, d, w)
      [] name = "Bass Needed" -> BassNeeded(dfull, d, w)
      [] name = "Piano Needed" -> PianoNeeded(dfull, d, w)
      [] name = "Drums Needed" -> DrumsNeeded(dfull, d, w)
      [] name = "Low Enrollment" -> LowEnrollment(dfull, d, w)
      [] name = "Performance Classes" -> PerformanceClasses(dfull, d, w)
      [] name = "Registration Preferences" -> RegistrationPreferences(dfull, d, w)
      [] name = "Other Critical Alerts" -> CriticalAlerts(dfull, d, w)
      [] OTHER -> Ok({}, {})

\* main from its k-th section on, given what each section does (outs): the
\* script stops at the first section that returns or raises
RECURSIVE RunSections(_, _, _)
RunSections(k, outs, done) ==
    IF k > Len(SectionOrder) THEN [done EXCEPT !.pc = "rendered"]
    ELSE IF outs[k].out = "raise"
    THEN [done EXCEPT !.pc = "raised", !.exception = outs[k].exc,
                      !.widgets = @ \cup outs[k].widgets]
    ELSE IF outs[k].out = "return"
    THEN [done EXCEPT !.pc = "returned", !.sections = Append(@, SectionOrder[k]),
                      !.st_info = @ \cup outs[k].info, !.widgets = @ \cup outs[k].widgets]
    ELSE RunSections(k + 1, outs,
                     [done EXCEPT !.sections = Append(@, SectionOrder[k]),
                                  !.st_info = @ \cup outs[k].info,
                                  !.widgets = @ \cup outs[k].widgets])

\* main below the sidebar, for the table dfull, its filtered and sorted rows d
\* and the widgets' values w
main_sections(dfull, d, w) ==
    CHOOSE run \in
        { RunSections(1, outs, [pc |-> "running", exception |-> "", sections |-> <<>>,
                                st_info |-> {}, widgets |-> {}]) :
            outs \in { <<>> \o [k \in 1..Len(SectionOrder) |->
                                   Section(SectionOrder[k], dfull, d, w)] } } : TRUE

\* the widgets of the sections: Streamlit forgets the value of a widget that a
\* run has not shown
SectionWidgets ==
    { "search_input", "bass_search", "piano_search", "drums_search",
      "low_enrollment_search", "performance_search", "registration_search",
      "priority_filter", "registration_contract_filter" }
Forget(w, shown) ==
    [key \in DOMAIN w |->
        IF key \in SectionWidgets /\ key \notin shown THEN NoWidgets[key] ELSE w[key]]

\* a button is True in the run its click has started only
AfterRun(w) == [w EXCEPT !.clicked = "", !.clicked_key = <<>>]

\* main below the panel: the sections, the buttons of the instrument cards and
\* the modal, which belong to "Instrument Status Overview"
RunBelowPanel(dfull, w) ==
    \E run \in {main_sections(dfull, filtered_df', w)} :
        /\ pc' = run.pc
        /\ exception' = run.exception
        /\ sections' = run.sections
        /\ st_info' = run.st_info
        /\ widgets' = run.widgets
        /\ IF Len(run.sections) >= 2
           THEN \E w2 \in {AfterInstrumentButton(filtered_df', w)} :
                    /\ modal' = Modal(w2)
                    /\ session_state' = AfterRun(Forget(w2, run.widgets))
           ELSE /\ modal' = NoModal
                /\ session_state' = AfterRun(Forget(w, run.widgets))

\* One run of main with the widgets' values w, after load_data
RunMain(dfull, w) ==
    /\ filtered_df' \in Render(dfull, w)
    /\ \E w1 \in {AfterPanelButton(AfterThemeSelectors(w))} :
        \E p \in {FacultyPanel(filtered_df', w1)} :
           /\ panel' = p
           /\ IF p.exc # ""
              THEN /\ pc' = "raised"
                   /\ exception' = p.exc
                   /\ sections' = <<>>
                   /\ st_info' = {}
                   /\ widgets' = {}
                   /\ modal' = NoModal
                   /\ session_state' = AfterRun(Forget(AfterPanel(w1, p), {}))
              ELSE \E w2 \in {AfterPanel(w1, p)} : RunBelowPanel(dfull, w2)

\* The first run of a session: load_data, then main with the widgets' defaults
FirstRun ==
    /\ pc = "start"
    /\ df' = load_data(file)
    /\ IF Len(df') = 0
       THEN /\ pc' = "stopped"
            /\ st_error' = (IF LoadRaises(file) THEN <<"Error loading data">> ELSE <<>>)
                               \o <<"No data loaded. Please check the JSON file.">>
            /\ UNCHANGED <<session_state, filtered_df, sections, st_info, widgets, exception,
                           panel, modal>>
       ELSE /\ st_error' = <<>>
            /\ \E w \in {DefaultWidgets(df')} : RunMain(df', w)
    /\ UNCHANGED <<file, theme_mode, session, background, faculty_images, saved>>

\* A widget changes and Streamlit runs main again (load_data is cached)
Rerun(w) ==
    /\ pc \in {"rendered", "returned", "raised"}
    /\ w # session_state
    /\ RunMain(df, w)
    /\ UNCHANGED <<file, df, st_error, theme_mode, session, background, faculty_images, saved>>

SelectTerm == \E t \in Terms(df) : Rerun([session_state EXCEPT !.term_filter = t])
SelectStyle == \E s \in Styles(df) : Rerun([session_state EXCEPT !.style_filter = s])
SelectRating == \E r \in Ratings(df) : Rerun([session_state EXCEPT !.rating_filter = r])
SelectInstrument ==
    \E i \in InstrumentOptions : Rerun([session_state EXCEPT !.instrument_filter = i])
SelectSort == \E o \in SortOptions : Rerun([session_state EXCEPT !.sort_filter = o])
SelectPriorityFilter ==
    \E k \in 1..Len(PriorityOptions) :
        Rerun([session_state EXCEPT !.priority_filter = PriorityOptions[k]])
ToggleBass == Rerun([session_state EXCEPT !.bass_filter = ~@])
TogglePiano == Rerun([session_state EXCEPT !.piano_filter = ~@])
ToggleDrums == Rerun([session_state EXCEPT !.drums_filter = ~@])
ToggleVocal == Rerun([session_state EXCEPT !.vocal_filter = ~@])

\* The header button, and the widgets and buttons of the panel it opens
ContractTypes == {"FT", "PT3yr", "PT_special", "adjunct", "Unknown"}
Click(button) == Rerun([session_state EXCEPT !.clicked = button])
ClickFacultyManagement == Click("faculty_contract_btn")
SelectFaculty ==
    \E f \in panel.faculty_list : Rerun([session_state EXCEPT !.faculty_selector = f])
SelectContractType ==
    /\ panel.faculty_list # {}
    /\ \E c \in ContractTypes : Rerun([session_state EXCEPT !.contract_type_selector = c])
ClickUpdateContractType == panel.faculty_list # {} /\ Click("update_contract_btn")
ClickResetAllToUnknown == panel.faculty_list # {} /\ Click("reset_contracts_btn")

\* The two theme selectboxes at the top of the page
ThemeModes == {"Light", "Dark"}
ColorThemes ==
    { "Classic Blue", "Ocean Green", "Sunset Orange", "Royal Purple", "Coral Pink",
      "Emerald" }
SelectThemeMode == \E m \in ThemeModes : Rerun([session_state EXCEPT !.theme_selector = m])
SelectColorTheme ==
    \E c \in ColorThemes : Rerun([session_state EXCEPT !.color_theme_selector = c])

\* The Edit button under the card of a faculty member, and the Close button of
\* the edit section, which clears the flag and calls st.rerun()
ClickEdit ==
    \E f \in panel.faculty_list :
        Rerun([session_state EXCEPT !.clicked = "edit_btn", !.clicked_key = edit_key(f)])
ClickCloseEdit ==
    \E f \in panel.edit_open :
        Rerun([session_state EXCEPT !.edit_faculty = @ \ {edit_key(f)}])

\* 'Save Image' of the panel (the uploader takes jpg, jpeg, png) saves for the
\* selected faculty member and the run goes on; 'Save File' of an edit box (it
\* also takes pdf) saves, closes the box and calls st.rerun()
ImageUploads == {"photo.jpg", "photo.PNG"}
FileUploads == {"photo.jpg", "photo.PNG", "scan.pdf"}
ClickSaveImage ==
    /\ panel.shown /\ panel.faculty_list # {}
    /\ \E uploaded_image \in ImageUploads : Save(panel.selected_faculty, uploaded_image)
    /\ RunMain(df, [session_state EXCEPT !.clicked = "save_image_btn"])
    /\ UNCHANGED <<file, df, st_error, theme_mode, session, background>>
ClickSaveFile ==
    /\ \E f \in panel.edit_open :
          /\ \E uploaded_file \in FileUploads : Save(f, uploaded_file)
          /\ RunMain(df, [session_state EXCEPT !.edit_faculty = @ \ {edit_key(f)}])
    /\ UNCHANGED <<file, df, st_error, theme_mode, session, background>>

\* A 'View ... Classes' button of the instrument cards, and the Close button
\* of the modal, which clears show_modal and calls st.rerun()
ClickInstrumentButton ==
    /\ Len(sections) >= 2
    /\ \E b \in DOMAIN InstrumentButtons : Click(b)
ClickCloseModal ==
    /\ modal.shown
    /\ Rerun([session_state EXCEPT !.show_modal = FALSE])

\* Resume when the selections are kept in one place for all sessions: C22 fails for it
Resume_shared(parked) == session_state

\* The st.session_state a browser session finds when its next run starts: its own
Resume(parked) == parked.session_state

\* The other browser session acts next: Streamlit keeps one st.session_state and
\* one page per session; the file, the cache of load_data and the module are shared
SwitchSession ==
    /\ session' = (IF session = "A" THEN "B" ELSE "A")
    /\ background' =
           [ pc |-> pc, st_error |-> st_error, session_state |-> session_state,
             filtered_df |-> filtered_df, sections |-> sections, st_info |-> st_info,
             widgets |-> widgets, exception |-> exception, panel |-> panel,
             modal |-> modal ]
    /\ pc' = background.pc
    /\ st_error' = background.st_error
    /\ session_state' = Resume(background)
    /\ filtered_df' = background.filtered_df
    /\ sections' = background.sections
    /\ st_info' = background.st_info
    /\ widgets' = background.widgets
    /\ exception' = background.exception
    /\ panel' = background.panel
    /\ modal' = background.modal
    /\ UNCHANGED <<file, df, theme_mode, faculty_images, saved>>

\* Text typed into a search box that the last run has shown
SearchTerms == {"", "molinari", "JAZZ", "001", "marks", ".", "(", "zzz"}
TypeInto(key) ==
    /\ key \in widgets
    /\ \E term \in SearchTerms : Rerun([session_state EXCEPT ![key] = term])
TypeSearchInput == TypeInto("search_input")
TypeBassSearch == TypeInto("bass_search")
TypePianoSearch == TypeInto("piano_search")
TypeDrumsSearch == TypeInto("drums_search")
TypeLowEnrollmentSearch == TypeInto("low_enrollment_search")
TypePerformanceSearch == TypeInto("performance_search")
TypeRegistrationSearch == TypeInto("registration_search")

(***************************************************************************)
(* Input files.                                                            *)
(***************************************************************************)
BaseRecord ==
    [ bSecTerm |-> 1,
      sectionname |-> "ENMX-100-001",
      titlelongcrs |-> JList(<<"Jazz Ensemble">>),
      facnamepreffml |-> JList(<<"Lello Molinari">>),
      seatsavail |-> JNum(2),
      activestucount |-> JNum(2),
      seatscap |-> JNum(4),
      ratingOverall |-> JNum(3),
      style |-> "Jazz",
      rhythminstrument |-> JList(<<>>),
      rhythmenrolled |-> JList(<<>>),
      rhythmneeded |-> JList(<<>>),
      bSinCsmDays |-> JList(<<"M", "W">>),
      bSinCsmStartTime |-> JList(<<"10:00 AM">>),
      bSinCsmEndTime |-> JList(<<"11:50 AM">>) ]

\* All sequences over S of length lo..hi
SeqsOf(S, lo, hi) == UNION {[1..n -> S] : n \in lo..hi}

\* Section names are unique within a term: the k-th record of a file gets the k-th
SectionNames == <<"ENMX-100-001", "ENVC-330-003", "ENGT-120-004", "ENPN-210-002">>
Named(f) == [k \in 1..Len(f) |-> [f[k] EXCEPT !.sectionname = SectionNames[k]]]

\* a browser session that has not run the script yet
NewSession ==
    [ pc |-> "start", st_error |-> <<>>, session_state |-> NoWidgets, filtered_df |-> <<>>,
      sections |-> <<>>, st_info |-> {}, widgets |-> {}, exception |-> "",
      panel |-> NoPanel, modal |-> NoModal ]

StartWithFile(f) ==
    /\ file = f
    /\ df = <<>>
    /\ pc = "start"
    /\ st_error = <<>>
    /\ session_state = NoWidgets
    /\ filtered_df = <<>>
    /\ sections = <<>>
    /\ st_info = {}
    /\ widgets = {}
    /\ exception = ""
    /\ panel = NoPanel
    /\ modal = NoModal
    /\ theme_mode = "Light"
    /\ session = "A"
    /\ background = NewSession
    /\ faculty_images = <<>>
    /\ saved = NoSave

StartWith(f) == StartWithFile(Named(f))

\* A numeric field: a count, or a value to_numeric cannot parse
NumericInputs(max) == {JText} \cup {JNum(k) : k \in 0..max}

\* One-record files that differ in their rhythm lists
NeededCodes == InstrumentSet \cup {"SAX"}
TagRecords ==
    { [BaseRecord EXCEPT !.rhythmenrolled = e, !.rhythmneeded = n] :
        e \in {JNull} \cup {JList(s) : s \in SeqsOf({JNum(0), JNum(1)}, 0, MaxEnrolledLen)},
        n \in {JNull} \cup {JList(s) : s \in SeqsOf(NeededCodes, 0, MaxNeededLen)} }

InitTag == \E r \in TagRecords : StartWith(<<r>>)
NextTag == FirstRun
SpecTag == InitTag /\ [][NextTag]_vars

\* Files of records that differ in student count and capacity
CountRecords ==
    { [BaseRecord EXCEPT !.activestucount = a, !.seatscap = c] :
        a \in NumericInputs(MaxCount), c \in NumericInputs(MaxCap) }

InitLoad == \E f \in SeqsOf(CountRecords, 1, MaxRecords) : StartWith(f)
NextLoad == FirstRun
SpecLoad == InitLoad /\ [][NextLoad]_vars

\* One-record files whose rates cover every bucket and its boundaries
RateCaps == {JText, JNum(0), JNum(4), JNum(200)}
RateRecords ==
    { [BaseRecord EXCEPT !.activestucount = a, !.seatscap = c] :
        a \in NumericInputs(MaxRateNum), c \in RateCaps }

InitRate == \E r \in RateRecords : StartWith(<<r>>)
NextRate == FirstRun
SpecRate == InitRate /\ [][NextRate]_vars

\* Files of records that differ in what is enrolled and needed on guitar and bass
SummaryNeeds == {<<>>, <<"GUIT">>, <<"BASS">>, <<"GUIT", "BASS">>}
SummaryRecords ==
    { [BaseRecord EXCEPT !.rhythmenrolled = JList(<<JNum(g)>>), !.rhythmneeded = JList(n)] :
        g \in 0..MaxEnrolled, n \in SummaryNeeds }

InitSummary == \E f \in SeqsOf(SummaryRecords, 1, MaxRecords) : StartWith(f)
NextSummary == FirstRun \/ SelectInstrument \/ ToggleBass
SpecSummary == InitSummary /\ [][NextSummary]_vars

\* Files of records that differ in student count and in faculty
FacultyLists ==
    { JNull, JList(<<>>), JList(<<"Lello Molinari">>), JList(<<"Albino Mbie">>),
      JList(<<"Ricardo Monzon">>), JList(<<"Tolieth Marks">>), JList(<<"Jane Doe">>),
      JList(<<"Tolieth Marks", "Lello Molinari">>) }
PriorityRecords ==
    { [BaseRecord EXCEPT !.activestucount = a, !.facnamepreffml = fac] :
        a \in NumericInputs(MaxCount), fac \in FacultyLists }

InitPriority == \E f \in SeqsOf(PriorityRecords, 1, MaxRecords) : StartWith(f)
NextPriority == FirstRun
SpecPriority == InitPriority /\ [][NextPriority]_vars

\* Files of records with and without faculty, for the sidebar's sorts
SidebarFaculty == {JNull, JList(<<>>), JList(<<"Lello Molinari">>), JList(<<"Tolieth Marks">>)}
SidebarRecords ==
    { [BaseRecord EXCEPT !.activestucount = a, !.facnamepreffml = fac] :
        a \in NumericInputs(MaxPrefCount), fac \in SidebarFaculty }

InitSidebar == \E f \in SeqsOf(SidebarRecords, 1, MaxRecords) : StartWith(f)
NextSidebar == FirstRun \/ SelectSort
SpecSidebar == InitSidebar /\ [][NextSidebar]_vars

\* Files of up to three records, for the order of registration_data
PreferenceFaculty == {JList(<<"Lello Molinari">>), JList(<<"Tolieth Marks">>)}
PreferenceRecords ==
    { [BaseRecord EXCEPT !.activestucount = a, !.facnamepreffml = fac] :
        a \in NumericInputs(MaxPrefCount), fac \in PreferenceFaculty }

InitPreference == \E f \in SeqsOf(PreferenceRecords, 1, MaxPrefRecords) : StartWith(f)
NextPreference == FirstRun
SpecPreference == InitPreference /\ [][NextPreference]_vars

\* Files of records that differ in student count, capacity and available seats
AlertCounts == {JText, JNum(3), JNum(4)}
AlertCaps == {JText, JNum(0), JNum(16), JNum(17)}
AlertSeats == {JText, JNum(0), JNum(2)}
AlertRecords ==
    { [BaseRecord EXCEPT !.activestucount = a, !.seatscap = c, !.seatsavail = s] :
        a \in AlertCounts, c \in AlertCaps, s \in AlertSeats }

InitAlert == \E f \in SeqsOf(AlertRecords, 1, MaxRecords) : StartWith(f)
NextAlert == FirstRun
SpecAlert == InitAlert /\ [][NextAlert]_vars

\* One-record files that differ in section name, faculty and course titles
PerformanceSections == {"ENMX-100-001", "ENVC-330-003", "enmx-100-005"}
PerformanceFaculty ==
    { JNull, JList(<<>>), JList(<<"Lello Molinari">>), JList(<<"PISJ Staff">>),
      JList(<<"Ends Well">>), JList(<<"Lello Molinari", "ENDS Faculty">>) }
PerformanceTitles ==
    { JNull, JList(<<>>), JList(<<"Jazz Ensemble">>), JList(<<"Improv Lab">>),
      JList(<<"performance lab">>), JList(<<"Improv Lab", "Senior Recital">>) }
PerformanceRecords ==
    { [BaseRecord EXCEPT !.sectionname = n, !.facnamepreffml = fac, !.titlelongcrs = t] :
        n \in PerformanceSections, fac \in PerformanceFaculty, t \in PerformanceTitles }

InitPerformance == \E r \in PerformanceRecords : StartWithFile(<<r>>)
NextPerformance == FirstRun
SpecPerformance == InitPerformance /\ [][NextPerformance]_vars

\* Three-record files that differ in term, style, rating and needed instruments
FilterRecord(term, style, rating, needed) ==
    [BaseRecord EXCEPT !.bSecTerm = term, !.style = style, !.ratingOverall = rating,
                       !.rhythmneeded = JList(needed)]
FilterFiles ==
    { <<a, b, c>> :
        a \in { FilterRecord(1, "Jazz", JNum(3), <<>>),
                FilterRecord(2, "Jazz", JNum(3), <<"BASS">>) },
        b \in { FilterRecord(2, "Latin", JNum(3), <<"BASS", "PNO", "DRUMS", "VOICE">>),
                FilterRecord(2, "Jazz", JText, <<"PNO", "DRUMS">>) },
        c \in { FilterRecord(2, "Latin", JNum(4), <<"GUIT", "VOICE">>),
                FilterRecord(2, "Jazz", JNum(3), <<"BASS", "VOICE", "VOICE">>) } }

\* the number of optional filters that are on
ActiveFilters(w) == Cardinality({k \in 2..Len(FilterOrder) : FilterActive(FilterOrder[k], w)})

InitFilter == \E f \in FilterFiles : StartWith(f)
NextFilter ==
    /\ \/ FirstRun
       \/ SelectTerm \/ SelectStyle \/ SelectRating \/ SelectInstrument
       \/ ToggleBass \/ TogglePiano \/ ToggleDrums \/ ToggleVocal
    /\ ActiveFilters(session_state') <= MaxActiveFilters
SpecFilter == InitFilter /\ [][NextFilter]_vars

\* Files of records that differ in faculty and course titles, for the search
SearchFaculty ==
    {JNull, JList(<<"Lello Molinari">>), JList(<<"Lello Molinari", "Tolieth Marks">>)}
SearchTitles == {JList(<<"Jazz Ensemble">>), JList(<<"Improv Lab", "Senior Recital">>)}
SearchRecords ==
    { [BaseRecord EXCEPT !.facnamepreffml = fac, !.titlelongcrs = t] :
        fac \in SearchFaculty, t \in SearchTitles }

InitSearch == \E f \in SeqsOf(SearchRecords, 1, MaxRecords) : StartWith(f)
NextSearch == FirstRun \/ TypeSearchInput
SpecSearch == InitSearch /\ [][NextSearch]_vars

\* Three-record files whose orders by name, count, score and faculty differ
SortRecord(name, count, faculty) ==
    [BaseRecord EXCEPT !.sectionname = name, !.activestucount = count,
                       !.facnamepreffml = faculty]
SortFiles ==
    { <<a, b, c>> :
        a \in { SortRecord("ENVC-330-003", JText, JNull),
                SortRecord("ENVC-330-003", JNum(1), JList(<<"Tolieth Marks">>)),
                SortRecord("ENVC-330-003", JNum(0), JList(<<"Lello Molinari", "Albino Mbie">>)) },
        b \in { SortRecord("ENGT-120-004", JNum(2), JList(<<"Albino Mbie">>)),
                SortRecord("ENGT-120-004", JNum(1), JList(<<>>)),
                SortRecord("ENGT-120-004", JText, JList(<<"Lello Molinari">>)) },
        c \in { SortRecord("ENMX-100-001", JNum(1), JList(<<"Lello Molinari">>)),
                SortRecord("ENMX-100-001", JNum(0), JNull),
                SortRecord("ENMX-100-001", JNum(2), JList(<<"Tolieth Marks">>)) } }

InitSort == \E f \in SortFiles : StartWithFile(f)
NextSort == FirstRun \/ SelectSort
SpecSort == InitSort /\ [][NextSort]_vars

\* Files whose first record has up to two list-valued fields of another shape:
\* absent, null or a scalar, or an empty list; alone in the file (the field is
\* then absent from every record) or followed by a record of the usual shape
ShapeBase ==
    [BaseRecord EXCEPT !.rhythminstrument = JList(<<"BASS">>),
                       !.rhythmenrolled = JList(<<JNum(0)>>),
                       !.rhythmneeded = JList(<<"BASS">>)]
ListFields ==
    { "rhythminstrument", "rhythmenrolled", "rhythmneeded", "facnamepreffml",
      "titlelongcrs", "bSinCsmDays", "bSinCsmStartTime", "bSinCsmEndTime" }
Shapes(field) == {JMissing, JNull, JList(<<>>), ShapeBase[field]}
ShapeRecords ==
    UNION { { [ShapeBase EXCEPT ![f1] = s1, ![f2] = s2] : s1 \in Shapes(f1), s2 \in Shapes(f2) } :
              f1 \in ListFields, f2 \in ListFields }
ShapeFiles ==
    { <<r>> : r \in ShapeRecords }
        \cup { <<r, [ShapeBase EXCEPT !.sectionname = "ENVC-330-003"]>> : r \in ShapeRecords }

InitShape == \E f \in ShapeFiles : StartWithFile(f)
NextShape == FirstRun
SpecShape == InitShape /\ [][NextShape]_vars

\* Two-record files whose first record has numeric fields that are a number,
\* not a number, or absent, and rhythmenrolled elements that are or are not
\* the text of an integer; the second record is of the usual shape
CoerceValues == {JNum(2), JText, JMissing}
CoerceEnrolled == {JList(<<JNum(1)>>), JList(<<JText>>), JList(<<JNum(0), JText>>)}
CoerceRecords ==
    { [ShapeBase EXCEPT !.seatsavail = a, !.activestucount = c, !.seatscap = p,
                        !.ratingOverall = o, !.rhythmenrolled = e,
                        !.rhythminstrument = JList(<<"BASS", "PNO">>)] :
        a \in CoerceValues, c \in CoerceValues, p \in CoerceValues,
        o \in CoerceValues, e \in CoerceEnrolled }
CoerceFiles ==
    { <<r, [ShapeBase EXCEPT !.sectionname = "ENVC-330-003"]>> : r \in CoerceRecords }

InitCoerce == \E f \in CoerceFiles : StartWithFile(f)
NextCoerce == FirstRun
SpecCoerce == InitCoerce /\ [][NextCoerce]_vars

\* Paths that hold no file, no JSON, JSON that is no array of objects, and
\* arrays of objects
OtherFiles ==
    { OtherFile(c, <<>>) :
        c \in {"no file", "not JSON", "number", "string", "null", "empty object",
               "array of numbers"} }
        \cup { OtherFile("object of columns", f) : f \in SortFiles }

InitFile == \E f \in OtherFiles \cup SortFiles : StartWithFile(f)
NextFile == FirstRun \/ SelectSort
SpecFile == InitFile /\ [][NextFile]_vars

\* Files whose first record is listed in every tab (it needs piano, bass and
\* drums, has fewer than 4 students, is a performance class and has a faculty)
\* or needs no instrument; no record needs a vocalist. One search box is
\* filled at a time.
SearchKeys ==
    { "search_input", "bass_search", "piano_search", "drums_search",
      "low_enrollment_search", "performance_search", "registration_search" }
EmptyRecords ==
    { [ShapeBase EXCEPT !.rhythminstrument = JList(<<"PNO", "BASS", "DRUMS">>),
                        !.rhythmenrolled = JList(<<JNum(0), JNum(0), JNum(0), JNum(0)>>),
                        !.rhythmneeded = n] :
        n \in {JList(<<"PNO", "BASS", "DRUMS">>), JList(<<>>)} }
EmptyFiles ==
    { <<r>> : r \in EmptyRecords }
        \cup { <<r, [BaseRecord EXCEPT !.sectionname = "ENVC-330-003"]>> : r \in EmptyRecords }
OneSearch(w) == \A k1, k2 \in SearchKeys : (w[k1] # "" /\ w[k2] # "") => k1 = k2

InitEmpty == \E f \in EmptyFiles : StartWithFile(f)
NextEmpty ==
    /\ \/ FirstRun
       \/ TypeSearchInput
       \/ TypeBassSearch
       \/ TypePianoSearch
       \/ TypeDrumsSearch
       \/ TypeLowEnrollmentSearch
       \/ TypePerformanceSearch
       \/ TypeRegistrationSearch
       \/ ToggleVocal
    /\ OneSearch(session_state')
SpecEmpty == InitEmpty /\ [][NextEmpty]_vars

\* One-record files whose three rhythm lists differ in length and content: an
\* enrolled list shorter and longer than five, needed codes outside the five,
\* and instrument lists that name other positions than the fixed order
PositionInstruments == {JNull, JList(<<>>), JList(<<"BASS">>), JList(<<"VOICE", "GUIT">>)}
PositionEnrolled ==
    { JNull, JList(<<>>), JList(<<JNum(2)>>), JList(<<JNum(0), JNum(1)>>),
      JList(<<JNum(1), JNum(0), JNum(2)>>),
      JList(<<JNum(0), JNum(0), JNum(0), JNum(0), JNum(3)>>),
      JList(<<JNum(1), JNum(2), JNum(3), JNum(4), JNum(5), JNum(6)>>) }
PositionNeeded ==
    { JNull, JList(<<>>), JList(<<"BASS", "BASS">>), JList(<<"SAX">>),
      JList(<<"SAX", "PNO", "SAX">>), JList(<<"VOICE", "GUIT", "VOICE">>) }
PositionRecords ==
    { [BaseRecord EXCEPT !.rhythminstrument = i, !.rhythmenrolled = e, !.rhythmneeded = n] :
        i \in PositionInstruments, e \in PositionEnrolled, n \in PositionNeeded }

InitPosition == \E r \in PositionRecords : StartWithFile(<<r>>)
NextPosition == FirstRun
SpecPosition == InitPosition /\ [][NextPosition]_vars

\* Two-record files with faculty names in and outside the contract table
ContractFiles ==
    { << [BaseRecord EXCEPT !.facnamepreffml = a],
         [BaseRecord EXCEPT !.sectionname = "ENVC-330-003", !.activestucount = JNum(1),
                            !.facnamepreffml = b] >> :
        a \in {JNull, JList(<<"Lello Molinari">>), JList(<<"Jane Doe", "Tolieth Marks">>)},
        b \in {JList(<<"Albino Mbie">>), JList(<<"Ricardo Monzon", "Jane Doe">>)} }

InitContract == \E f \in ContractFiles : StartWithFile(f)
NextContract ==
    \/ FirstRun
    \/ ClickFacultyManagement
    \/ SelectFaculty
    \/ SelectContractType
    \/ ClickUpdateContractType
    \/ ClickResetAllToUnknown
SpecContract == InitContract /\ [][NextContract]_vars

\* Two browser sessions on one file; each opens and closes the modal and the
\* panel, opens edit sections and picks themes (two of the themes, two of the
\* instruments and one edit section keep the state space small)
SessionFile ==
    << [BaseRecord EXCEPT !.rhythminstrument = JList(<<"BASS", "PNO">>),
                          !.rhythmenrolled = JList(<<JNum(0), JNum(0)>>),
                          !.rhythmneeded = JList(<<"BASS", "PNO">>)] >>
SessionChoices(w) ==
    /\ w.color_theme_selector \in {"Classic Blue", "Emerald"}
    /\ w.theme_selector = "Light"
    /\ w.selected_instrument \in {"Unknown", "BASS"}

InitSession == StartWithFile(SessionFile)
NextSession ==
    /\ \/ FirstRun
       \/ SelectColorTheme
       \/ ClickFacultyManagement
       \/ ClickEdit
       \/ ClickCloseEdit
       \/ ClickInstrumentButton
       \/ ClickCloseModal
       \/ SwitchSession
    /\ SessionChoices(session_state')
SpecSession == InitSession /\ [][NextSession]_vars

\* Two-record files that differ in student count (0 to MaxCount) and in faculty,
\* for the placement list and its "Filter by Priority Level" box
LevelRecords ==
    { [BaseRecord EXCEPT !.activestucount = JNum(a), !.facnamepreffml = fac] :
        a \in 0..MaxCount, fac \in PreferenceFaculty }
LevelFiles ==
    { << a, [b EXCEPT !.sectionname = "ENVC-330-003"] >> : a, b \in LevelRecords }

InitLevel == \E f \in LevelFiles : StartWithFile(f)
NextLevel == FirstRun \/ SelectPriorityFilter
SpecLevel == InitLevel /\ [][NextLevel]_vars

\* Two-record files for the export: section names with a comma, a quote and a
\* line break, one or two faculty names, start times of every shape
ExportNames == {"ENMX-100-001", "EN,1", "EN\"1", "EN\n1"}
ExportRecords ==
    { [BaseRecord EXCEPT !.sectionname = n, !.facnamepreffml = f, !.bSinCsmStartTime = b] :
        n \in ExportNames,
        f \in {JNull, JList(<<"Lello Molinari">>), JList(<<"Tolieth Marks", "Jane Doe">>)},
        b \in {JNull, JList(<<>>), JList(<<"10:00 AM">>)} }
ExportFiles ==
    { <<r, [BaseRecord EXCEPT !.sectionname = n]>> : r \in ExportRecords, n \in ExportNames }

InitExport == \E f \in ExportFiles : StartWithFile(f)
NextExport == FirstRun
SpecExport == InitExport /\ [][NextExport]_vars

\* One file with two faculty members, for the files saved from the panel
StoreFile ==
    << [BaseRecord EXCEPT !.facnamepreffml = JList(<<"Lello Molinari">>)],
       [BaseRecord EXCEPT !.sectionname = "ENVC-330-003",
                          !.facnamepreffml = JList(<<"Tolieth Marks">>)] >>

InitStore == StartWithFile(StoreFile)
NextStore ==
    FirstRun \/ ClickFacultyManagement \/ ClickEdit \/ ClickSaveImage \/ ClickSaveFile
SpecStore == InitStore /\ [][NextStore]_vars

\* Two-record files for the modal: the first record needs a bassist, the second
\* differs in what it needs
ModalNeeds == { <<"BASS">>, <<"PNO">>, <<"BASS", "PNO">>, <<"DRUMS">> }
ModalFiles ==
    { << [BaseRecord EXCEPT !.rhythminstrument = JList(<<"BASS">>),
                            !.rhythmenrolled = JList(<<JNum(0)>>),
                            !.rhythmneeded = JList(<<"BASS">>)],
         [BaseRecord EXCEPT !.sectionname = "ENVC-330-003",
                            !.rhythminstrument = JList(n),
                            !.rhythmenrolled = JList([k \in 1..Len(n) |-> JNum(0)]),
                            !.rhythmneeded = JList(n)] >> : n \in ModalNeeds }

InitModal == \E f \in ModalFiles : StartWithFile(f)
NextModal ==
    FirstRun \/ ClickInstrumentButton \/ ClickCloseModal \/ ToggleBass \/ TogglePiano
SpecModal == InitModal /\ [][NextModal]_vars

\* Two-record files that differ in the start times
StartTimes ==
    { "9:00 AM", "10:00 AM", "12:00 AM", "12:30 PM", "1:00 PM", "2:15 PM", "3:45 PM",
      "4:00 PM", "6:30 PM", "10:30 PM", "11:00 PM", "7:01:00 PM", "17:00" }
StartTimeInputs ==
    {JNull, JMissing, JList(<<>>)} \cup {JList(<<t>>) : t \in StartTimes}
        \cup {JList(<<"4:00 PM", "9:00 AM">>)}
TimeSlotFiles ==
    { << [BaseRecord EXCEPT !.bSinCsmStartTime = a],
         [BaseRecord EXCEPT !.sectionname = "ENVC-330-003", !.bSinCsmStartTime = b] >> :
        a \in StartTimeInputs, b \in StartTimeInputs \ {JMissing} }

InitTimeSlot == \E f \in TimeSlotFiles : StartWithFile(f)
NextTimeSlot == FirstRun
SpecTimeSlot == InitTimeSlot /\ [][NextTimeSlot]_vars

(***************************************************************************)
(* C1: every loaded record has, for each of the five instruments, one of   *)
(* the statuses Filled, Needed, Not Required; Filled implies an enrolled   *)
(* count > 0, Needed implies an enrolled count of 0 and a needed count > 0.*)
(***************************************************************************)
C1_StatusInvariant ==
    \A k \in 1..Len(df) : \A i \in InstrumentSet :
        /\ df[k].status[i] \in {"Filled", "Needed", "Not Required"}
        /\ df[k].status[i] = "Filled" => df[k].enrolled[i] > 0
        /\ df[k].status[i] = "Needed" => df[k].enrolled[i] = 0 /\ df[k].needed[i] > 0

C1_Witness ==
    /\ pc = "rendered"
    /\ \E k \in 1..Len(df) :
          /\ df[k].status["VOICE"] = "Filled"
          /\ df[k].status["GUIT"] = "Needed"
          /\ df[k].status["PNO"] = "Not Required"

(***************************************************************************)
(* C2: every loaded record's enrollment_rate is a finite number >= 0, and  *)
(* is exactly 0 whenever seatsCapacity is 0 or missing, whatever           *)
(* activeStudentCount is.                                                  *)
(***************************************************************************)
C2_RateFiniteAndZero ==
    \A k \in 1..Len(df) :
        /\ IsFinite(df[k].enrollment_rate)
        /\ df[k].enrollment_rate.n >= 0
        /\ (IsNaN(df[k].seatscap) \/ df[k].seatscap.n = 0) => df[k].enrollment_rate.n = 0

(***************************************************************************)
(* C5: categorize_enrollment_rate puts every finite rate r >= 0 in exactly *)
(* the bucket of its interval: r = 0, (0, 25], (25, 50], (50, 75],         *)
(* (75, 99], (99, infinity).                                               *)
(***************************************************************************)
BucketOf(n, d) ==
    { b \in { "0% (No Students)", "1-25% (Low)", "26-50% (Medium)", "51-75% (Good)",
              "76-99% (High)", "100% (Full)" } :
        \/ b = "0% (No Students)" /\ n = 0
        \/ b = "1-25% (Low)" /\ 0 < n /\ n <= 25 * d
        \/ b = "26-50% (Medium)" /\ 25 * d < n /\ n <= 50 * d
        \/ b = "51-75% (Good)" /\ 50 * d < n /\ n <= 75 * d
        \/ b = "76-99% (High)" /\ 75 * d < n /\ n <= 99 * d
        \/ b = "100% (Full)" /\ n > 99 * d }

C5_BucketsPartition ==
    \A k \in 1..Len(filtered_df) :
        LET r == filtered_df[k].enrollment_rate
        IN  (IsFinite(r) /\ r.n >= 0) =>
                BucketOf(r.n, r.d) = {categorize_enrollment_rate(r)}

C5_Witness ==
    /\ pc = "rendered"
    /\ \E k \in 1..Len(filtered_df) :
          LET r == filtered_df[k].enrollment_rate
          IN  /\ IsFinite(r) /\ r.n = 99 * r.d
              /\ categorize_enrollment_rate(r) = "76-99% (High)"

(***************************************************************************)
(* C10: a record is in the low-enrollment set exactly when its             *)
(* activeStudentCount is < 4; its severity is the one of its count alone   *)
(* (0 and 1 CRITICAL, 2 and 3 WARNING), whatever the capacity; main,       *)
(* utils.get_enrollment_status and components.display_low_enrollment_alert *)
(* give every flagged record the same severity and status.                 *)
(***************************************************************************)
SeverityOfCount(c) ==
    CASE c = 0 -> [severity |-> "danger", status |-> "CRITICAL - NO STUDENTS"]
      [] c = 1 -> [severity |-> "danger", status |-> "CRITICAL - ONLY 1 STUDENT"]
      [] c = 2 -> [severity |-> "warning", status |-> "WARNING - ONLY 2 STUDENTS"]
      [] c = 3 -> [severity |-> "warning", status |-> "WARNING - ONLY 3 STUDENTS"]

C10_LowEnrollment ==
    LET low == low_enrollment_classes(filtered_df)
    IN  /\ \A k \in 1..Len(filtered_df) :
              LET a == filtered_df[k].activestucount
              IN  (\E j \in 1..Len(low) : low[j] = filtered_df[k])
                      <=> (a.d = 1 /\ a.n < 4)
        /\ \A j \in 1..Len(low) :
              /\ main_severity(low[j].activestucount) = SeverityOfCount(low[j].activestucount.n)
              /\ get_enrollment_status(low[j].activestucount, low[j].seatscap)
                     = SeverityOfCount(low[j].activestucount.n)
              /\ display_low_enrollment_alert(low[j]) = SeverityOfCount(low[j].activestucount.n)

C10_Witness ==
    /\ pc = "rendered"
    /\ Len(filtered_df) = 2
    /\ filtered_df[1].activestucount = Flt(3)
    /\ filtered_df[1].seatscap = Flt(0)
    /\ filtered_df[2].activestucount = Flt(4)
    /\ Len(low_enrollment_classes(filtered_df)) = 1

(***************************************************************************)
(* C3: for every filtered set and instrument the fill rate is the share of *)
(* the classes needing the instrument that have it enrolled, so it lies    *)
(* between 0 and 100; a class that has the instrument enrolled without     *)
(* needing it does not raise it.                                           *)
(***************************************************************************)
C3_FillRateIsProportion ==
    pc = "rendered" =>
        \A i \in InstrumentSet :
            LET rate == get_instrument_summary(filtered_df)[i].FillRate
                need == CountRows(filtered_df, LAMBDA row : row.needed[i] > 0)
                have == CountRows(filtered_df,
                                  LAMBDA row : row.needed[i] > 0 /\ row.enrolled[i] > 0)
            IN  /\ FGE(rate, Flt(0)) /\ FLE(rate, Flt(100))
                /\ need > 0 => FEQ(rate, [n |-> have * 100, d |-> need])

(***************************************************************************)
(* C4: for every filtered set, the empty one included, the summary of an   *)
(* instrument that no record needs has a fill rate of exactly 0.           *)
(***************************************************************************)
C4_FillRateZeroWithoutNeed ==
    pc = "rendered" =>
        \A i \in InstrumentSet :
            (\A k \in 1..Len(filtered_df) : filtered_df[k].needed[i] = 0) =>
                get_instrument_summary(filtered_df)[i].FillRate = Flt(0)

C4_Witness ==
    /\ pc = "rendered"
    /\ Len(filtered_df) = 0
    /\ \E k \in 1..Len(df) : df[k].status["GUIT"] = "Filled"
    /\ get_instrument_summary(filtered_df)["GUIT"].FillRate = Flt(0)

(***************************************************************************)
(* C6: of two scored records, the one with the greater activeStudentCount  *)
(* has the strictly greater priority score, whatever the contract types of *)
(* their first-listed faculty; in analyze_registration_preferences and in  *)
(* the sidebar's calculate_priority_score.                                 *)
(***************************************************************************)
C6_CountDominatesContract ==
    LET reg == analyze_registration_preferences(filtered_df)
    IN  /\ \A a, b \in 1..Len(reg) :
              FGT(reg[a].enrolled_count, reg[b].enrolled_count)
                  => FGT(reg[a].priority_score, reg[b].priority_score)
        /\ \A a, b \in 1..Len(filtered_df) :
              FGT(filtered_df[a].activestucount, filtered_df[b].activestucount)
                  => FGT(calculate_priority_score(filtered_df[a]),
                         calculate_priority_score(filtered_df[b]))

C6_Witness ==
    /\ pc = "rendered"
    /\ LET reg == analyze_registration_preferences(filtered_df)
       IN  \E a, b \in 1..Len(reg) :
              /\ reg[a].enrolled_count = Flt(1) /\ reg[a].contract_type = "Unknown"
              /\ reg[b].enrolled_count = Flt(0) /\ reg[b].contract_type = "FT"
              /\ reg[a].priority_score = Flt(10) /\ reg[b].priority_score = Flt(4)

(***************************************************************************)
(* C7: registration_data is in non-increasing order of priority_score =    *)
(* activeStudentCount * 10 + the contract priority of the first faculty    *)
(* (FT 4, PT3yr 3, PT_special 2, adjunct 1, Unknown 0): of two records     *)
(* with the same student count, the one with the higher contract priority  *)
(* comes first.                                                            *)
(***************************************************************************)
ContractPriorityTable ==
    [c \in {"FT", "PT3yr", "PT_special", "adjunct", "Unknown"} |->
        CASE c = "FT" -> 4 [] c = "PT3yr" -> 3 [] c = "PT_special" -> 2
          [] c = "adjunct" -> 1 [] OTHER -> 0]

C7_SortedByScore ==
    LET reg == analyze_registration_preferences(filtered_df)
    IN  /\ \A k \in 1..Len(reg) :
              ~IsNaN(reg[k].enrolled_count) =>
                  reg[k].priority_score =
                      Flt(reg[k].enrolled_count.n * 10 + ContractPriorityTable[reg[k].contract_type])
        /\ \A i, j \in 1..Len(reg) :
              i < j => ~FLT(reg[i].priority_score, reg[j].priority_score)

(***************************************************************************)
(* C8 (as stated): a record without faculty names takes part in no         *)
(* priority scoring: it is absent from registration_data and from the      *)
(* view the sidebar's "Priority Order" sort produces.                      *)
(***************************************************************************)
C8_NoFacultyNeverScored ==
    /\ \A k \in 1..Len(filtered_df) :
          ~HasFaculty(filtered_df[k]) =>
              \A j \in 1..Len(analyze_registration_preferences(filtered_df)) :
                  analyze_registration_preferences(filtered_df)[j].section_name
                      # filtered_df[k].sectionname
    /\ session_state.sort_filter = "Priority Order" =>
          \A k \in 1..Len(filtered_df) : HasFaculty(filtered_df[k])

(***************************************************************************)
(* C8 (amended): analyze_registration_preferences leaves out the records   *)
(* without faculty names and keeps every other record; the sidebar's       *)
(* "Priority Order" sort keeps them and scores them as Unknown:            *)
(* activeStudentCount * 10 + 0.                                            *)
(***************************************************************************)
SidebarScore(row) ==
    IF HasFaculty(row) THEN calculate_priority_score(row)
    ELSE FMul(row.activestucount, Flt(10))

C8_NoFacultyOnlyLeftOutOfAnalysis ==
    LET reg == analyze_registration_preferences(filtered_df)
    IN  /\ \A k \in 1..Len(filtered_df) :
              HasFaculty(filtered_df[k]) <=>
                  \E j \in 1..Len(reg) : reg[j].section_name = filtered_df[k].sectionname
        /\ (pc = "rendered" /\ session_state.sort_filter = "Priority Order") =>
              /\ {filtered_df[k] : k \in 1..Len(filtered_df)} = {df[k] : k \in 1..Len(df)}
              /\ \A i, j \in 1..Len(filtered_df) :
                    i < j => ~FLT(SidebarScore(filtered_df[i]), SidebarScore(filtered_df[j]))

C8_Witness ==
    /\ pc = "rendered"
    /\ session_state.sort_filter = "Priority Order"
    /\ Len(filtered_df) = 2
    /\ ~HasFaculty(filtered_df[1]) /\ filtered_df[1].activestucount = Flt(1)
    /\ HasFaculty(filtered_df[2]) /\ filtered_df[2].activestucount = Flt(0)
    /\ Len(analyze_registration_preferences(filtered_df)) = 1

(***************************************************************************)
(* C9: the priority level of a scored record is that of its                *)
(* activeStudentCount alone: 3 HIGHEST, 2 HIGH, 1 MEDIUM, 0 LOW, whatever  *)
(* the contract type.                                                      *)
(***************************************************************************)
LevelOfCount(c) ==
    CASE c = 3 -> "HIGHEST - 3 instruments/ratings"
      [] c = 2 -> "HIGH - 2 instruments/ratings"
      [] c = 1 -> "MEDIUM - 1 instrument/rating"
      [] c = 0 -> "LOW - 0 instruments/ratings"

C9_LevelFromCountAlone ==
    LET reg == analyze_registration_preferences(filtered_df)
    IN  \A k \in 1..Len(reg) :
            (reg[k].enrolled_count.d = 1 /\ reg[k].enrolled_count.n \in 0..3) =>
                reg[k].priority_level = LevelOfCount(reg[k].enrolled_count.n)

C9_Witness ==
    /\ pc = "rendered"
    /\ LET reg == analyze_registration_preferences(filtered_df)
       IN  \E a, b \in 1..Len(reg) :
              /\ reg[a].enrolled_count = Flt(3) /\ reg[a].contract_type = "adjunct"
              /\ reg[b].enrolled_count = Flt(3) /\ reg[b].contract_type = "FT"
              /\ reg[a].priority_level = "HIGHEST - 3 instruments/ratings"
              /\ reg[b].priority_level = "HIGHEST - 3 instruments/ratings"

(***************************************************************************)
(* C11: in "Other Critical Alerts" a record produces the low-enrollment-   *)
(* rate alert exactly when its enrollment rate is < 25 and its             *)
(* activeStudentCount is >= 4, and the full-capacity alert exactly when    *)
(* its seatsAvailable is 0; a record may produce both, one or none, and it *)
(* is listed exactly when it produces at least one.                        *)
(***************************************************************************)
RateBelow25(r) == (r.d > 0 /\ r.n < 25 * r.d) \/ r = NegInf

C11_OtherCriticalAlerts ==
    pc = "rendered" =>
        LET shown == other_critical_alerts(filtered_df)
            has(row, alert) ==
                \E j \in 1..Len(shown) :
                    shown[j] = [alert |-> alert, section_name |-> row.sectionname]
        IN  \A k \in 1..Len(filtered_df) :
                LET row == filtered_df[k]
                    low == /\ RateBelow25(row.enrollment_rate)
                           /\ row.activestucount.d = 1 /\ row.activestucount.n >= 4
                    full == row.seatsavail = Flt(0)
                IN  /\ has(row, "Low Enrollment Alert") <=> low
                    /\ has(row, "Full Capacity") <=> full
                    /\ (\E j \in 1..Len(critical_ensembles(filtered_df)) :
                            critical_ensembles(filtered_df)[j] = row) <=> (low \/ full)

C11_Witness ==
    /\ pc = "rendered"
    /\ Len(filtered_df) = 2
    /\ filtered_df[1].activestucount = Flt(4) /\ filtered_df[1].seatscap = Flt(16)
    /\ filtered_df[1].seatsavail = Flt(0)
    /\ filtered_df[2].activestucount = Flt(4) /\ filtered_df[2].seatscap = Flt(17)
    /\ filtered_df[2].seatsavail = Flt(2)
    /\ Len(other_critical_alerts(filtered_df)) = 2

(***************************************************************************)
(* C12: identify_performance_classes returns a record exactly when a rule  *)
(* matches it: its section name contains 'ENMX-100', or its joined faculty *)
(* text contains 'PISJ' or 'ENDS', or its first course title, upper-cased, *)
(* contains 'PERFORMANCE', 'ENSEMBLE' or 'RECITAL'; the reason is that of  *)
(* the first rule that matches, in this order. The strings of the model    *)
(* that match each rule are listed by hand.                                *)
(***************************************************************************)
SectionsWithENMX100 == {"ENMX-100-001"}
NamesWithPISJOrENDS == {"PISJ Staff", "ENDS Faculty"}
TitlesWithKeyword == {"Jazz Ensemble", "Senior Recital", "performance lab"}

ExpectedReason(row) ==
    IF row.sectionname \in SectionsWithENMX100 THEN "ENMX-100 Performance Class"
    ELSE IF /\ row.facnamepreffml.t = "list"
            /\ \E k \in 1..Len(row.facnamepreffml.v) :
                  row.facnamepreffml.v[k] \in NamesWithPISJOrENDS
    THEN "Faculty {faculty} - Cannot be scheduled for rating auditions"
    ELSE IF /\ row.titlelongcrs.t = "list" /\ Len(row.titlelongcrs.v) > 0
            /\ row.titlelongcrs.v[1] \in TitlesWithKeyword
    THEN "Performance/Ensemble Class"
    ELSE ""

C12_FirstMatchingRule ==
    pc = "rendered" =>
        LET found == identify_performance_classes(filtered_df)
        IN  /\ \A k \in 1..Len(filtered_df) :
                  (\E j \in 1..Len(found) : found[j].section_name = filtered_df[k].sectionname)
                      <=> ExpectedReason(filtered_df[k]) # ""
            /\ \A j \in 1..Len(found) : \E k \in 1..Len(filtered_df) :
                  /\ found[j].section_name = filtered_df[k].sectionname
                  /\ found[j].performance_reason.text = ExpectedReason(filtered_df[k])

C12_Witness ==
    /\ pc = "rendered"
    /\ Len(filtered_df) = 1
    /\ filtered_df[1].sectionname = "ENMX-100-001"
    /\ filtered_df[1].facnamepreffml = JList(<<"Lello Molinari", "ENDS Faculty">>)
    /\ filtered_df[1].titlelongcrs = JList(<<"Jazz Ensemble">>)
    /\ identify_performance_classes(filtered_df)[1].performance_reason.text
           = "ENMX-100 Performance Class"

(***************************************************************************)
(* C13: the filtered set is exactly the records of the selected term that  *)
(* satisfy every optional predicate that is on (style equal, rating equal, *)
(* needed count of the selected instrument > 0, needed count of BASS, PNO, *)
(* DRUMS, VOICE > 0 for each checked toggle; a missing rating equals no    *)
(* selection); applying the filters in another order gives the same set,   *)
(* and turning a further one on never adds a record.                       *)
(***************************************************************************)
SatisfiesAll(row, w) ==
    /\ row.bSecTerm = w.term_filter
    /\ w.style_filter # "All" => row.style = w.style_filter
    /\ ~w.rating_filter.all =>
           /\ row.ratingOverall.d = 1 /\ w.rating_filter.v.d = 1
           /\ row.ratingOverall.n = w.rating_filter.v.n
    /\ w.instrument_filter # "All" => row.needed[w.instrument_filter] > 0
    /\ w.bass_filter => row.needed["BASS"] > 0
    /\ w.piano_filter => row.needed["PNO"] > 0
    /\ w.drums_filter => row.needed["DRUMS"] > 0
    /\ w.vocal_filter => row.needed["VOICE"] > 0

FilterBlocks == <<<<"term">>, <<"style", "rating">>, <<"instrument">>,
                  <<"bass", "piano", "drums", "vocal">>>>
BlockOrders ==
    { FilterBlocks[p[1]] \o FilterBlocks[p[2]] \o FilterBlocks[p[3]] \o FilterBlocks[p[4]] :
        p \in IndexPermutations(4) }

\* the widgets' values with one more optional filter on
OneMoreFilter(w, d) ==
    (IF w.style_filter = "All"
     THEN {[w EXCEPT !.style_filter = x] : x \in Styles(d) \ {"All"}} ELSE {})
    \cup (IF w.rating_filter.all
          THEN {[w EXCEPT !.rating_filter = x] : x \in Ratings(d) \ {AllRatings}} ELSE {})
    \cup (IF w.instrument_filter = "All"
          THEN {[w EXCEPT !.instrument_filter = x] : x \in InstrumentSet} ELSE {})
    \cup (IF w.bass_filter THEN {} ELSE {[w EXCEPT !.bass_filter = TRUE]})
    \cup (IF w.piano_filter THEN {} ELSE {[w EXCEPT !.piano_filter = TRUE]})
    \cup (IF w.drums_filter THEN {} ELSE {[w EXCEPT !.drums_filter = TRUE]})
    \cup (IF w.vocal_filter THEN {} ELSE {[w EXCEPT !.vocal_filter = TRUE]})

RowsOf(d) == {d[k] : k \in 1..Len(d)}

C13_ConjunctiveFilter ==
    pc = "rendered" =>
        /\ filtered_df = SelectSeq(df, LAMBDA row : SatisfiesAll(row, session_state))
        /\ \A order \in BlockOrders : FilterInOrder(order, df, session_state) = filtered_df
        /\ \A w \in OneMoreFilter(session_state, df) :
              RowsOf(ApplyFilters(df, w)) \subseteq RowsOf(filtered_df)

C13_Witness ==
    /\ pc = "rendered"
    /\ Len(df) = 3
    /\ session_state.style_filter = "Latin"
    /\ session_state.bass_filter
    /\ Len(filtered_df) = 1
    /\ filtered_df[1].needed["BASS"] = 1 /\ filtered_df[1].style = "Latin"
    /\ \E k \in 1..Len(df) : df[k].bSecTerm = 2 /\ df[k].style = "Latin"
                               /\ df[k].needed["BASS"] = 0

(***************************************************************************)
(* C14: the search of the ensemble table shows exactly the filtered        *)
(* records for which the term, without regard to case, is a substring of   *)
(* the section name, of a faculty name of the list, or of a course title   *)
(* of the list; a term found only in a faculty name, at any position,      *)
(* still shows the record. The strings of the model that hold each term    *)
(* are listed by hand.                                                     *)
(***************************************************************************)
StringsHolding(term) ==
    CASE term = "molinari" -> {"Lello Molinari"}
      [] term = "JAZZ" -> {"Jazz Ensemble"}
      [] term = "001" -> {"ENMX-100-001"}
      [] term = "marks" -> {"Tolieth Marks"}
      [] OTHER -> {}

HoldsIn(x, term) ==
    x.t = "list" /\ \E k \in 1..Len(x.v) : x.v[k] \in StringsHolding(term)

TermFound(row, term) ==
    \/ row.sectionname \in StringsHolding(term)
    \/ HoldsIn(row.facnamepreffml, term)
    \/ HoldsIn(row.titlelongcrs, term)

C14_SearchIsSubstring ==
    (pc # "start" /\ session_state.search_input # "") =>
        /\ exception = ""
        /\ display_df(filtered_df, session_state)
               = SelectSeq(filtered_df, LAMBDA row : TermFound(row, session_state.search_input))

(***************************************************************************)
(* C15: the sorted view holds the records of the filtered set, each as     *)
(* often as the filtered set does, in the order of the selected key:       *)
(* priority score downwards, enrollment count upwards or downwards,        *)
(* section name upwards, or first-listed faculty name upwards with the     *)
(* empty string for a record without faculty; a missing count or score     *)
(* comes last; 'Default (No Sorting)' leaves the order of the input.       *)
(***************************************************************************)
TimesIn(d, row) == Cardinality({k \in 1..Len(d) : d[k] = row})

\* the key of a row as an integer, -1 for a missing one
CountKey(row) == IF row.activestucount.d = 1 THEN row.activestucount.n ELSE -1
ScoreKey(row) ==
    IF row.activestucount.d # 1 THEN -1
    ELSE row.activestucount.n * 10
         + (IF row.facnamepreffml.t = "list" /\ Len(row.facnamepreffml.v) > 0
            THEN ContractPriorityTable[categorize_faculty_contract(row.facnamepreffml.v[1])]
            ELSE 0)
FacultyKey(row) ==
    IF row.facnamepreffml.t = "list" /\ Len(row.facnamepreffml.v) > 0
    THEN row.facnamepreffml.v[1] ELSE ""

\* the order of the model's strings by code point, written by hand
StringOrder ==
    << "", "Albino Mbie", "ENGT-120-004", "ENMX-100-001", "ENVC-330-003",
       "Lello Molinari", "Tolieth Marks" >>
PlaceOf(str) == CHOOSE k \in 1..Len(StringOrder) : StringOrder[k] = str

Downwards(x, y) == (x = -1 => y = -1) /\ (y # -1 => x >= y)
Upwards(x, y) == (x = -1 => y = -1) /\ (y # -1 => x <= y)

C15_SortIsPermutation ==
    pc = "rendered" =>
        LET base == ApplyFilters(df, session_state)
            o == session_state.sort_filter
        IN  /\ Len(filtered_df) = Len(base)
            /\ \A k \in 1..Len(base) : TimesIn(filtered_df, base[k]) = TimesIn(base, base[k])
            /\ o = "Default (No Sorting)" => filtered_df = base
            /\ \A i, j \in 1..Len(filtered_df) :
                  i < j =>
                      LET x == filtered_df[i]
                          y == filtered_df[j]
                      IN  /\ o = "Priority Order" => Downwards(ScoreKey(x), ScoreKey(y))
                          /\ o = "Enrollment Count (High to Low)"
                                 => Downwards(CountKey(x), CountKey(y))
                          /\ o = "Enrollment Count (Low to High)"
                                 => Upwards(CountKey(x), CountKey(y))
                          /\ o = "Class Name (A-Z)"
                                 => PlaceOf(x.sectionname) <= PlaceOf(y.sectionname)
                          /\ o = "Faculty Name (A-Z)"
                                 => PlaceOf(FacultyKey(x)) <= PlaceOf(FacultyKey(y))

C15_Witness ==
    /\ pc = "rendered"
    /\ session_state.sort_filter = "Enrollment Count (High to Low)"
    /\ Len(filtered_df) = 3
    /\ filtered_df[1].sectionname = "ENGT-120-004" /\ filtered_df[1].activestucount = Flt(2)
    /\ filtered_df[2].sectionname = "ENMX-100-001" /\ filtered_df[2].activestucount = Flt(1)
    /\ filtered_df[3].sectionname = "ENVC-330-003" /\ IsNaN(filtered_df[3].activestucount)

(***************************************************************************)
(* C16: whatever the shape of the list-valued fields of a record (absent,  *)
(* null or a scalar, an empty list), the load does not fail and the run    *)
(* of main raises nothing. The code does not keep this: a start or end     *)
(* time that is an empty list is indexed at [0], and a list-valued field   *)
(* that no record has is a column that does not exist.                     *)
(***************************************************************************)
C16_ListShapeNeverRaises ==
    pc # "start" =>
        /\ Len(df) = Len(file)
        /\ st_error = <<>>
        /\ exception = ""

(***************************************************************************)
(* C17: a value that is not a number, or is absent, in seatsavail,         *)
(* activestucount, seatscap, ratingOverall or among the elements of        *)
(* rhythmenrolled of some record is no load error: every record of the     *)
(* file is loaded and the other records are loaded as they are without     *)
(* it. The code does not keep this for the elements of rhythmenrolled:     *)
(* int() raises on them and the whole load fails.                          *)
(***************************************************************************)
C17_BadNumberIsNoLoadError ==
    pc # "start" =>
        /\ st_error = <<>>
        /\ Len(df) = Len(file)
        /\ df[2] = load_data(<<file[2]>>)[1]

(***************************************************************************)
(* C18: when the path holds no file, or a file that is not a well-formed   *)
(* JSON array of objects, the load fails as a whole: no record is loaded,  *)
(* load_data reports the error and returns an empty table,                 *)
(* load_ensemble_data raises, and main renders no section and no widget.   *)
(* The code does not keep this for a JSON object of equal-length column    *)
(* arrays, which pd.DataFrame tabulates like the array of objects.         *)
(***************************************************************************)
C18_BadFileLoadsNothing ==
    (pc # "start" /\ ~IsArrayOfObjects(file)) =>
        /\ pc = "stopped"
        /\ df = <<>>
        /\ st_error = <<"Error loading data", "No data loaded. Please check the JSON file.">>
        /\ load_ensemble_data(file).raises # ""
        /\ sections = <<>> /\ widgets = {} /\ st_info = {}

(***************************************************************************)
(* C19: when the filtered set is empty, or the term typed into one of the  *)
(* search boxes is held by no record, the run raises nothing, goes through *)
(* every section of main and writes an informational message. The code     *)
(* does not keep this: a term that is no regular expression ends the run   *)
(* in re.error, and a tab whose search finds nothing returns from main.    *)
(***************************************************************************)
HeldByNone(term) == term # "" /\ \A k \in 1..Len(df) : ~TermFound(df[k], term)

C19_EmptyResultIsInformational ==
    (/\ pc \notin {"start", "stopped"}
     /\ \/ Len(filtered_df) = 0
        \/ \E key \in SearchKeys : HeldByNone(session_state[key]))
        => /\ exception = ""
           /\ pc = "rendered"
           /\ st_info # {}

(***************************************************************************)
(* C20: for the instrument at place i of GUIT, PNO, BASS, DRUMS, VOICE the *)
(* enrolled count of a loaded record is the i-th element of its            *)
(* rhythmenrolled list, 0 when the list is shorter, whatever its           *)
(* rhythminstrument list holds; the needed count is the number of times    *)
(* the code stands in rhythmneeded; a code outside the five changes no     *)
(* count; no such record makes the load fail; and                          *)
(* utils.process_instrument_data writes the same counts.                   *)
(***************************************************************************)
FixedOrder == <<"GUIT", "PNO", "BASS", "DRUMS", "VOICE">>
ListOf(x) == IF x.t = "list" THEN x.v ELSE <<>>
Occurrences(list, code) == Cardinality({j \in 1..Len(list) : list[j] = code})
OnlyTheFive(list) ==
    SelectSeq(list, LAMBDA c : c \in {"GUIT", "PNO", "BASS", "DRUMS", "VOICE"})

C20_PositionalCounts ==
    pc # "start" =>
        /\ Len(df) = Len(file)
        /\ st_error = <<>>
        /\ \A k \in 1..Len(df) : \A i \in 1..5 :
              LET e == ListOf(file[k].rhythmenrolled)
                  n == ListOf(file[k].rhythmneeded)
                  code == FixedOrder[i]
                  written == process_instrument_data(df, FixedOrder)[k]
              IN  /\ df[k].enrolled[code] = (IF i <= Len(e) THEN e[i].v ELSE 0)
                  /\ df[k].needed[code] = Occurrences(n, code)
                  /\ df[k].needed[code] = Occurrences(OnlyTheFive(n), code)
                  /\ written.enrolled[code] = df[k].enrolled[code]
                  /\ written.needed[code] = df[k].needed[code]

C20_Witness ==
    /\ pc # "start"
    /\ Len(df) = 1
    /\ file[1].rhythminstrument = JList(<<"VOICE", "GUIT">>)
    /\ file[1].rhythmenrolled = JList(<<JNum(1), JNum(0), JNum(2)>>)
    /\ file[1].rhythmneeded = JList(<<"SAX", "PNO", "SAX">>)
    /\ df[1].enrolled = [GUIT |-> 1, PNO |-> 0, BASS |-> 2, DRUMS |-> 0, VOICE |-> 0]
    /\ df[1].needed = [GUIT |-> 0, PNO |-> 1, BASS |-> 0, DRUMS |-> 0, VOICE |-> 0]

(***************************************************************************)
(* C21: the contract type of a faculty name is the entry of the fixed      *)
(* table for exactly that string and Unknown for every other name, in      *)
(* every reachable state: after any clicks on 'Update Contract Type' and   *)
(* 'Reset All to Unknown' the lookup, the types the panel lists and the    *)
(* contract types and priority scores of the registration data are those   *)
(* of the table.                                                           *)
(***************************************************************************)
ModelNames ==
    { "Lello Molinari", "Albino Mbie", "Ricardo Monzon", "Tolieth Marks", "Jane Doe",
      "lello molinari", "Lello", "" }
TableContract(name) ==
    CASE name = "Lello Molinari" -> "FT"
      [] name = "Albino Mbie" -> "PT3yr"
      [] name = "Ricardo Monzon" -> "PT_special"
      [] name = "Tolieth Marks" -> "adjunct"
      [] OTHER -> "Unknown"
TableScore(count, name) == count * 10 + ContractPriorityTable[TableContract(name)]

C21_ContractLookupIsFixed ==
    /\ \A name \in ModelNames : categorize_faculty_contract(name) = TableContract(name)
    /\ \A f \in panel.faculty_list : panel.contracts[f] = TableContract(f)
    /\ "Registration Preferences" \in RowsOf(sections) =>
          LET reg == analyze_registration_preferences(filtered_df)
          IN  \A k \in 1..Len(reg) :
                  /\ reg[k].contract_type = TableContract(reg[k].faculty)
                  /\ reg[k].priority_score
                         = Flt(TableScore(reg[k].enrolled_count.n, reg[k].faculty))

C21_Witness ==
    /\ pc = "rendered"
    /\ \E m \in panel.messages :
          m.kind = "success" /\ m.faculty = "Jane Doe" /\ m.contract = "FT"
    /\ panel.contracts["Jane Doe"] = "Unknown"
    /\ \E k \in 1..Len(analyze_registration_preferences(filtered_df)) :
          analyze_registration_preferences(filtered_df)[k].faculty = "Jane Doe"

(***************************************************************************)
(* C22: with two browser sessions, the selections of a session (modal open *)
(* or closed, selected instrument and modal data, panel visibility, edit   *)
(* toggles, theme colors) and what it has rendered from them are changed   *)
(* by no step of the other session: a step of the acting session leaves    *)
(* the other one's state as it is, a session that acts again finds its     *)
(* state as it left it, and no step writes the module-level theme_mode.    *)
(***************************************************************************)
Selections(w) ==
    << w.show_modal, w.selected_instrument, w.modal_data, w.show_faculty_management,
       w.edit_faculty, w.theme_colors, w.color_theme_selector >>

C22_SessionsAreIsolated ==
    [][ /\ theme_mode' = theme_mode
        /\ session' = session => background' = background
        /\ session' # session =>
              /\ Selections(session_state') = Selections(background.session_state)
              /\ modal' = background.modal
              /\ panel' = background.panel
              /\ Selections(background'.session_state) = Selections(session_state)
              /\ background'.modal = modal
              /\ background'.panel = panel ]_vars

C22_Witness ==
    /\ session = "B"
    /\ pc = "rendered"
    /\ ~session_state.show_modal /\ ~modal.shown
    /\ ~session_state.show_faculty_management
    /\ session_state.theme_colors = "Classic Blue"
    /\ background.session_state.show_modal /\ background.modal.shown
    /\ background.session_state.selected_instrument = "BASS"
    /\ background.session_state.show_faculty_management
    /\ background.session_state.theme_colors = "Emerald"
    /\ background.session_state.edit_faculty # {}

(***************************************************************************)
(* C23: the time slot of a record is Morning when its first start time     *)
(* holds 'AM'; Afternoon when it holds 'PM' and its hour is 12, 1, 2 or 3; *)
(* Evening for every other 'PM' time, whatever its minutes and seconds;    *)
(* Unknown when the list is empty, missing or the string has neither       *)
(* marker. The code does not keep this: it looks for '1:', '2:', '3:' and  *)
(* '12:' anywhere in the string, so 11 PM and 7:01:00 PM are Afternoon.    *)
(***************************************************************************)
SlotByHour(x) ==
    IF x.t # "list" \/ Len(x.v) = 0 THEN "Unknown"
    ELSE CASE x.v[1] \in {"9:00 AM", "10:00 AM", "12:00 AM"} -> "Morning"
           [] x.v[1] \in {"12:30 PM", "1:00 PM", "2:15 PM", "3:45 PM"} -> "Afternoon"
           [] x.v[1] \in {"4:00 PM", "6:30 PM", "10:30 PM", "11:00 PM", "7:01:00 PM"}
                 -> "Evening"
           [] OTHER -> "Unknown"

C23_TimeSlotByHour ==
    "Additional Analytics" \in RowsOf(sections) =>
        \A k \in 1..Len(filtered_df) :
            time_slot(filtered_df)[k] = SlotByHour(filtered_df[k].bSinCsmStartTime)

(***************************************************************************)
(* C27: every record of analyze_registration_preferences is in exactly one *)
(* of the four priority tabs, the tab of its priority level, and the       *)
(* 'Filter by Priority Level' box keeps exactly the records of the chosen  *)
(* level. The code does not keep this: the level strings it assigns end in *)
(* 'instruments/ratings', the filter and the tabs compare with strings     *)
(* ending in 'Students', so every tab is empty and every choice other than *)
(* 'All Priorities' keeps nothing.                                         *)
(***************************************************************************)
\* the tab, and the position in the box, of the level of a student count
LevelTab(enrolled_count) ==
    IF FEQ(enrolled_count, Flt(3)) THEN 1
    ELSE IF FEQ(enrolled_count, Flt(2)) THEN 2
    ELSE IF FEQ(enrolled_count, Flt(1)) THEN 3
    ELSE 4

C27_LevelLabelsAgree ==
    (pc = "rendered" /\ "Registration Preferences" \in RowsOf(sections)) =>
        LET found == registration_found(filtered_df, session_state)
            data == registration_data(filtered_df, session_state)
        IN  /\ \A k \in 1..Len(data) : \A tab \in 1..4 :
                   (data[k] \in RowsOf(TabEntries(data, tab)))
                       <=> (tab = LevelTab(data[k].enrolled_count))
            /\ \A box \in 1..4 :
                   session_state.priority_filter = PriorityOptions[box + 1] =>
                       data = SelectSeq(found,
                                        LAMBDA rd : LevelTab(rd.enrolled_count) = box)

(***************************************************************************)
(* C28: the priority labels follow the score order: a record whose label   *)
(* is above another's has the higher priority_score, and no LOW record     *)
(* scores higher than a HIGHEST one, whatever the student counts are. The  *)
(* code does not keep this: a count of 4 or more falls in the else branch  *)
(* and is labelled LOW, while its score is 40 or more.                     *)
(***************************************************************************)
\* 4 for HIGHEST down to 1 for LOW
LabelHeight(label) ==
    CASE label = "HIGHEST - 3 instruments/ratings" -> 4
      [] label = "HIGH - 2 instruments/ratings" -> 3
      [] label = "MEDIUM - 1 instrument/rating" -> 2
      [] label = "LOW - 0 instruments/ratings" -> 1

C28_LabelsFollowScores ==
    pc = "rendered" =>
        LET reg == analyze_registration_preferences(filtered_df)
        IN  \A a, b \in 1..Len(reg) :
                LabelHeight(reg[a].priority_level) > LabelHeight(reg[b].priority_level)
                    => FGT(reg[a].priority_score, reg[b].priority_score)

(***************************************************************************)
(* C25: whenever the instrument modal is displayed, its class list is the  *)
(* list of the classes of the current filtered set that need the selected  *)
(* instrument, after any sequence of instrument-button clicks, Close       *)
(* clicks and filter changes. The code does not keep this: the modal shows *)
(* the list stored by the click, and a later filter change leaves it.      *)
(***************************************************************************)
C25_ModalShowsCurrentClasses ==
    (pc = "rendered" /\ modal.shown) =>
        modal.classes = instrument_classes(filtered_df, modal.instrument)

(***************************************************************************)
(* C26: the sections do not depend on each other's search boxes: a search  *)
(* that matches nothing in the low-enrollment, performance or registration *)
(* section does not prevent the sections below it, and 'Other Critical     *)
(* Alerts' is rendered in every run in which data was loaded. The code     *)
(* does not keep this: after the 'no results' message main returns.        *)
(***************************************************************************)
C26_AlertsInEveryRun ==
    (pc \in {"rendered", "returned"} /\ Len(df) > 0) =>
        "Other Critical Alerts" \in RowsOf(sections)

(***************************************************************************)
(* C29: the faculty files are a key-value store by faculty name: after     *)
(* save_faculty_image(F, file) has returned True, get_faculty_image_path(F)*)
(* returns the path and the type of the file just saved, whatever files    *)
(* were saved before, and a save for another name leaves what F has. The   *)
(* code does not keep this: the look-up returns the first existing file in *)
(* the order jpg, jpeg, png, pdf, and a save removes no earlier file.      *)
(***************************************************************************)
C29_LastSavedIsFound ==
    saved.ok =>
        /\ get_faculty_image_path(saved.faculty) =
               [ path |-> <<safe_name(saved.faculty), file_extension(saved.file)>>,
                 type |-> file_extension(saved.file) ]
        /\ faculty_images[get_faculty_image_path(saved.faculty).path] = saved.file
        /\ \A g \in all_faculty(df) \ {saved.faculty} :
               /\ get_faculty_image_path(g) = ImagePath(saved.before, g)
               /\ get_faculty_image_path(g) # NoFile =>
                      faculty_images[get_faculty_image_path(g).path]
                          = saved.before[get_faculty_image_path(g).path]

(***************************************************************************)
(* C30: the headline metrics agree: 'Open Seats' is 'Total Seats' minus    *)
(* 'Enrolled Students', also when a record has no capacity or no count,    *)
(* and utils.calculate_metrics gives the numbers of the cards. The code    *)
(* does not keep the first part: the open seats of a record without a      *)
(* capacity or a count are NaN and left out of the sum, while its other    *)
(* number is still in its own sum.                                         *)
(***************************************************************************)
C30_OpenSeatsIsDifference ==
    (pc = "rendered" /\ "Metrics" \in RowsOf(sections)) =>
        LET cards == metric_cards(filtered_df)
        IN  /\ cards.open_seats = cards.total_seats - cards.enrolled_students
            /\ calculate_metrics(filtered_df) = cards

(***************************************************************************)
(* C24: the CSV export of the general ensemble view, parsed back, has one  *)
(* row per record with the same section names in the same order, also when *)
(* a value holds a comma, a quote or a line break; and the builder of      *)
(* app.py and utils.prepare_download_data(df, 'ensemble') give the same    *)
(* rows. The code does not keep the second part: for a record whose start  *)
(* or end time list is empty, main raises IndexError where utils writes    *)
(* 'N/A'.                                                                  *)
(***************************************************************************)
C24_ExportRoundTrip ==
    (pc \in {"rendered", "raised"} /\ Len(sections) >= 5) =>
        \A table \in {display_df(filtered_df, session_state)} :
            Len(table) > 0 =>
                /\ final_df(table) = prepare_download_data(table)
                /\ final_df(table).exc = "" =>
                       \A back \in {csv_reader(to_csv(final_df(table).rows))} :
                          /\ Len(back) = Len(table) + 1
                          /\ back[1] = ExportHeader
                          /\ \A k \in 1..Len(table) :
                                 back[k + 1] = final_df(table).rows[k]
====
